---- MODULE Spec2Model ----
(***************************************************************************)
(* State-machine model of the FreeRTOS C++ wrapper classes: Queue<T> and   *)
(* Semaphore (src/Semaphore.hpp), Mutex and the interrupt-context methods  *)
(* of Task (src/Task.hpp), MutexRecursive (src/MutexRecursive.hpp), Timer  *)
(* (src/Timer.hpp), and the construction, copying and destruction of the   *)
(* wrapper objects.  The wrapper methods are translated from the source;   *)
(* the kernel calls they forward to (xQueueSendToBack, xSemaphoreTake,     *)
(* xTimerStart, ...) are not part of the repository and are modelled from  *)
(* the kernel interface the specification describes.                       *)
(***************************************************************************)
EXTENDS Integers, Sequences, FiniteSets, TLC

(* ------------------------------ bounds -------------------------------- *)
\* largest queue capacity tried
MaxLength == 3
\* largest finite wait, in ticks
MaxTicks == 1
\* longest run of sendToBack calls followed in the FIFO log
MaxLog == 4
\* largest maxCount of a counting semaphore
MaxCount == 5
\* number of calls remembered after a semaphore's construction
MaxHist == 5
\* most takes a task may have outstanding on a mutex
MaxDepth == 2
\* largest tick count followed
MaxTickCount == 2
\* number of wrapper objects that can be constructed
MaxObjects == 2
\* number of handles the kernel can give out
MaxHandles == 2
\* largest timer period, in ticks
MaxPeriod == 2
\* length of the timer command queue
MaxCmds == 2
\* most start commands processed, and most callback runs followed
MaxStarts == 1
MaxFires == 2
\* most suspend() calls counted between two resumes
MaxSuspends == 2
\* stack words of the wrapped task
MaxStack == 2
\* width of TickType_t in bits, scaled down from 32
TickBits == 10
\* longest tick period in ms, and largest count of a duration
MaxTickPeriod == 2
MaxDuration == 20
\* last tick of the runs with delaying tasks
MaxWakeTick == 3
\* longest queue of the runs that set the default waits
MaxSlots == 2

\* values of the item type T; two values are enough to tell orders apart
Items == {"a", "b"}
NoItem == "none"
\* the tasks that use the shared queue or semaphore
Tasks == {"T1", "T2"}

(* --------------------------- kernel values ---------------------------- *)
pdTRUE == "pdTRUE"
pdFALSE == "pdFALSE"
pdPASS == pdTRUE
errQUEUE_FULL == pdFALSE
errQUEUE_EMPTY == pdFALSE
\* the largest TickType_t value: wait without a timeout
portMAX_DELAY == MaxTicks + 1
TickType == 0..portMAX_DELAY

VARIABLES
    NDEBUG,                 \* build flag: assert() is compiled out
    aborted,                \* an assert() has failed: the program is gone
    call,                   \* per task: the kernel call it is blocked in
    last,                   \* what the last returned call gave its caller
    length,                 \* Queue<T>::length
    qItems,                 \* the kernel queue's storage area, head first
    defaultMaxTicksToWait,  \* Queue<T>::defaultMaxTicksToWait
    defaultMinTicksToWait,  \* Queue<T>::defaultMinTicksToWait
    sentLog,                \* items sent by sendToBack since the queue was empty
    recvLog,                \* items receive returned since then
    fifoOk,                 \* only sendToBack/receive used since then
    logging,                \* the FIFO log is kept in this run
    semKind,                \* which constructor made the semaphore
    maxCount,               \* Semaphore::maxCount
    initialCount,           \* constructor argument (0 for the binary one)
    semCount,               \* the kernel semaphore's count
    defaultBlockTime,       \* Semaphore::defaultBlockTime
    semHist,                \* calls made since construction, with results
    semClass,               \* the wrapper class: Semaphore, Mutex, MutexRecursive
    owned,                  \* per task: its successful takes not yet given back
    mutexHolder,            \* the kernel object's holder field (mutex types only)
    recursiveCallCount,     \* the kernel object's recursion count (mutex types)
    uxPriority,             \* per task: its effective priority
    taskSuspended,          \* the task wrapped by the Task object is suspended
    xTickCount,             \* the kernel's tick count
    currentTickCount,       \* Task::currentTickCount
    objState,               \* per wrapper object: none, live or destroyed
    objKind,                \* per wrapper object: its class
    objHandle,              \* per wrapper object: its handle field
    created,                \* per kernel handle: the create call returned it
    deletes,                \* per kernel handle: delete calls made on it
    nullCalls,              \* kernel calls made with a null handle
    tmrAutoReload,          \* xTimerCreate's auto-reload argument
    tmrPeriod,              \* the kernel timer's period, in ticks
    tmrState,               \* the kernel timer is Dormant or Running
    tmrRemaining,           \* ticks until the Running timer expires
    tmrQueue,               \* commands waiting for the timer-service task
    tmrStarts,              \* start commands processed so far
    tmrFired,               \* callback runs so far
    tmrDefaultBlockTime,    \* Timer::defaultBlockTime
    tmrQueueLength,         \* capacity of the timer command queue
    tmrLogging,             \* whether tmrStarts and tmrFired are kept
    tmrDestroyed,           \* ~Timer has run
    tmrDeletes,             \* delete commands submitted so far
    \* the Task object and the task it wraps
    tskSuspends,            \* suspend() calls since the task last was resumed
    tskLogging,             \* whether tskSuspends is kept
    tskPriority,            \* per task: the priority the kernel keeps
    freeStackSpace,         \* Task::freeStackSpace
    usStackHighWaterMark,   \* kernel: least free stack of the wrapped task
    taskStatus,             \* Task::status, its usStackHighWaterMark field
    \* the conversions between durations and ticks
    portTICK_PERIOD_MS,     \* the tick period in ms, of type TickType_t
    convIn,                 \* the last conversion: what was converted
    convOut,                \* the last conversion: its result
    \* tasks that delay and yield
    tskWakeTime,            \* per task: the tick it is delayed until, or NoWake
    tskLastWake,            \* the wake time the last delayUntil(period) set
    tskYielded,             \* the task that gave up the processor last
    \* several Timer objects and the timer-service task
    tmsPeriod,              \* period of each timer
    tmsAutoReload,          \* auto-reload flag of each timer
    tmsState,               \* "Dormant" or "Running", for each timer
    tmsRemaining,           \* ticks until the running period expires
    tmsQueue,               \* the timer command queue
    tmsExecuting            \* <<context, timer>>: callbacks being executed

sharedVars == <<NDEBUG, aborted, call, last>>
queueVars == <<length, qItems, defaultMaxTicksToWait, defaultMinTicksToWait,
               sentLog, recvLog, fifoOk, logging>>
semVars == <<semKind, maxCount, initialCount, semCount, defaultBlockTime, semHist,
             semClass, owned, mutexHolder, recursiveCallCount, uxPriority>>
taskVars == <<taskSuspended, xTickCount, currentTickCount, tskSuspends>>
lifeVars == <<objState, objKind, objHandle, created, deletes, nullCalls>>
timerVars == <<tmrAutoReload, tmrPeriod, tmrState, tmrRemaining, tmrQueue,
               tmrStarts, tmrFired, tmrDefaultBlockTime, tmrQueueLength,
               tmrLogging, tmrDestroyed, tmrDeletes>>
timersVars == <<tmsPeriod, tmsAutoReload, tmsState, tmsRemaining, tmsQueue,
                tmsExecuting>>
tskInfo == <<tskLogging, tskPriority, freeStackSpace, usStackHighWaterMark,
             taskStatus>>
convVars == <<portTICK_PERIOD_MS, convIn, convOut>>
delayVars == <<tskWakeTime, tskLastWake, tskYielded>>
moreVars == <<timersVars, tskInfo, convVars, delayVars>>
extVars == <<taskVars, lifeVars, timerVars, moreVars>>
vars == <<sharedVars, queueVars, semVars, extVars>>

\* the null task handle
NULL == "NULL"
\* the priority each task was created with
basePriority(t) == IF t = "T1" THEN 1 ELSE 2

NoCall == [op |-> "none", item |-> NoItem, wait |-> 0]
NoLast == [op |-> "none", arg |-> NoItem, status |-> pdTRUE, val |-> NoItem]

(* ======================= kernel queue interface ======================= *)
\* xQueueSendToBack / xQueueSendToBackFromISR on storage q of capacity len
xQueueSendToBack(q, len, x) ==
    IF Len(q) < len
    THEN [status |-> pdTRUE, items |-> Append(q, x)]
    ELSE [status |-> errQUEUE_FULL, items |-> q]

\* xQueueSendToFront / xQueueSendToFrontFromISR
xQueueSendToFront(q, len, x) ==
    IF Len(q) < len
    THEN [status |-> pdTRUE, items |-> <<x>> \o q]
    ELSE [status |-> errQUEUE_FULL, items |-> q]

\* xQueueReceive / xQueueReceiveFromISR: on failure the buffer is not written
xQueueReceive(q) ==
    IF Len(q) > 0
    THEN [status |-> pdTRUE, item |-> Head(q), items |-> Tail(q)]
    ELSE [status |-> errQUEUE_EMPTY, item |-> NoItem, items |-> q]

\* xQueueReset: always pdPASS
xQueueReset(q) == [status |-> pdPASS, items |-> <<>>]

uxQueueMessagesWaiting(q) == Len(q)
uxQueueSpacesAvailable(q, len) == len - Len(q)

(* ========================= Queue<T> wrappers ========================== *)
\* (status == pdTRUE) ? true : false
sendToBackRet_AlwaysTrue(status) == TRUE
sendToBackRet(status) == status = pdTRUE

sendToFrontRet(status) == status = pdTRUE

resetRet(status) == status = pdPASS

\* the kernel call each sending wrapper makes
sendToBackKernel_Front(q, len, x) == xQueueSendToFront(q, len, x)
sendToBackKernel(q, len, x) == xQueueSendToBack(q, len, x)

sendToFrontKernel(q, len, x) == xQueueSendToBack(q, len, x)

messagesWaiting == uxQueueMessagesWaiting(qItems)
messagesWaitingFromISR == uxQueueMessagesWaiting(qItems)

spacesAvailable_Waiting == uxQueueMessagesWaiting(qItems)
spacesAvailable == uxQueueSpacesAvailable(qItems, length)


\* T buffer; xQueueReceive(handle, &buffer, ...); return buffer;
\* the buffer starts uninitialised and is written only when an item is copied
receiveBuffer(r, uninit) == IF r.status = pdTRUE THEN r.item ELSE uninit

\* assert(ret == pdTRUE) in receive(ticksToWait): fails unless compiled out
receiveAssertFails(status) == ~NDEBUG /\ status # pdTRUE

BackOps == {"sendToBack", "sendToBackFromISR"}
FrontOps == {"sendToFront", "sendToFrontFromISR"}
SendOps == BackOps \cup FrontOps

SendKernel(op, q, len, x) ==
    IF op \in BackOps THEN sendToBackKernel(q, len, x)
                      ELSE sendToFrontKernel(q, len, x)

SendRet(op, status) ==
    IF op \in BackOps THEN sendToBackRet(status) ELSE sendToFrontRet(status)

\* the FIFO log has room for one more sendToBack
LogRoom(op) ==
    op \in BackOps => (~fifoOk \/ Len(qItems) = 0 \/ Len(sentLog) < MaxLog)

\* bookkeeping of a successful send: a sendToBack on an empty queue starts a
\* new run, a sendToFront ends the run
LogSend(op, x) ==
    IF op \in BackOps
    THEN IF Len(qItems) = 0
         THEN sentLog' = <<x>> /\ recvLog' = <<>> /\ fifoOk' = logging
         ELSE /\ sentLog' = IF fifoOk THEN Append(sentLog, x) ELSE <<>>
              /\ UNCHANGED <<recvLog, fifoOk>>
    ELSE sentLog' = <<>> /\ recvLog' = <<>> /\ fifoOk' = FALSE

\* a send call returns to its caller with the kernel's result r
FinishSend(op, x, r) ==
    /\ qItems' = r.items
    /\ last' = [op |-> op, arg |-> x, status |-> r.status,
                val |-> SendRet(op, r.status)]
    /\ IF r.status = pdTRUE
       THEN LogSend(op, x)
       ELSE UNCHANGED <<sentLog, recvLog, fifoOk>>

\* a receive call comes back from the kernel with result r
FinishReceive(op, r, uninit) ==
    /\ qItems' = r.items
    /\ IF op = "receive" /\ receiveAssertFails(r.status)
       THEN /\ aborted' = TRUE
            /\ last' = [op |-> op, arg |-> NoItem, status |-> r.status,
                        val |-> NoItem]
       ELSE /\ aborted' = aborted
            /\ last' = [op |-> op, arg |-> NoItem, status |-> r.status,
                        val |-> receiveBuffer(r, uninit)]
    /\ recvLog' = IF r.status = pdTRUE /\ fifoOk
                  THEN Append(recvLog, receiveBuffer(r, uninit))
                  ELSE recvLog
    /\ UNCHANGED <<sentLog, fifoOk>>

queueConfig == <<length, defaultMaxTicksToWait, defaultMinTicksToWait, logging>>

\* a task-context send: returns at once when the item fits or the wait is 0,
\* otherwise the kernel blocks the caller
QueueSendTask(t, op, x, ticksToWait) ==
    /\ ~aborted
    /\ call[t] = NoCall
    /\ LET r == SendKernel(op, qItems, length, x) IN
        /\ r.status = pdTRUE => LogRoom(op)
        /\ IF r.status = pdTRUE \/ ticksToWait = 0
           THEN FinishSend(op, x, r) /\ UNCHANGED call
           ELSE /\ call' = [call EXCEPT ![t] =
                               [op |-> op, item |-> x, wait |-> ticksToWait]]
                /\ UNCHANGED <<qItems, last, sentLog, recvLog, fifoOk>>
    /\ UNCHANGED <<NDEBUG, aborted, queueConfig, semVars, extVars>>

\* an interrupt-context send: never blocks
QueueSendISR(op, x) ==
    /\ ~aborted
    /\ LET r == SendKernel(op, qItems, length, x) IN
        /\ r.status = pdTRUE => LogRoom(op)
        /\ FinishSend(op, x, r)
    /\ UNCHANGED <<NDEBUG, aborted, call, queueConfig, semVars, extVars>>

sendToBack(t, itemToQueue, ticksToWait) ==
    QueueSendTask(t, "sendToBack", itemToQueue, ticksToWait)

sendToBackDefault(t, itemToQueue) ==
    sendToBack(t, itemToQueue, defaultMinTicksToWait)

sendToBackFromISR(itemToQueue) == QueueSendISR("sendToBackFromISR", itemToQueue)

sendToFront(t, itemToQueue, ticksToWait) ==
    QueueSendTask(t, "sendToFront", itemToQueue, ticksToWait)

sendToFrontDefault(t, itemToQueue) ==
    sendToFront(t, itemToQueue, defaultMinTicksToWait)

sendToFrontFromISR(itemToQueue) == QueueSendISR("sendToFrontFromISR", itemToQueue)

receive(t, ticksToWait) ==
    /\ ~aborted
    /\ call[t] = NoCall
    /\ LET r == xQueueReceive(qItems) IN
        IF r.status = pdTRUE \/ ticksToWait = 0
        THEN /\ \E uninit \in Items : FinishReceive("receive", r, uninit)
             /\ UNCHANGED call
        ELSE /\ call' = [call EXCEPT ![t] =
                            [op |-> "receive", item |-> NoItem, wait |-> ticksToWait]]
             /\ UNCHANGED <<aborted, qItems, last, sentLog, recvLog, fifoOk>>
    /\ UNCHANGED <<NDEBUG, queueConfig, semVars, extVars>>

\* receive() that would poll
receiveDefault_Poll(t) == receive(t, 0)
receiveDefault(t) == receive(t, defaultMaxTicksToWait)

receiveFromISR ==
    /\ ~aborted
    /\ \E uninit \in Items :
          FinishReceive("receiveFromISR", xQueueReceive(qItems), uninit)
    /\ UNCHANGED <<NDEBUG, call, queueConfig, semVars, extVars>>

\* a reset that would leave the items in the queue
reset_Keep(t) ==
    /\ ~aborted
    /\ call[t] = NoCall
    /\ last' = [op |-> "reset", arg |-> NoItem, status |-> pdPASS,
                val |-> resetRet(pdPASS)]
    /\ sentLog' = <<>> /\ recvLog' = <<>> /\ fifoOk' = FALSE
    /\ UNCHANGED <<NDEBUG, aborted, call, queueConfig, qItems, semVars,
                   extVars>>

\* reset(): xQueueReset(handle)
reset(t) ==
    /\ ~aborted
    /\ call[t] = NoCall
    /\ LET r == xQueueReset(qItems) IN
        /\ qItems' = r.items
        /\ last' = [op |-> "reset", arg |-> NoItem, status |-> r.status,
                    val |-> resetRet(r.status)]
    /\ sentLog' = <<>> /\ recvLog' = <<>> /\ fifoOk' = FALSE
    /\ UNCHANGED <<NDEBUG, aborted, call, queueConfig, semVars, extVars>>

\* setDefaultMaxTicksToWait(newTicksToWait)
setDefaultMaxTicksToWait(t, newTicksToWait) ==
    /\ ~aborted
    /\ call[t] = NoCall
    /\ defaultMaxTicksToWait' = newTicksToWait
    /\ last' = [op |-> "setDefaultMaxTicksToWait", arg |-> NoItem,
                status |-> pdTRUE, val |-> NoItem]
    /\ UNCHANGED <<NDEBUG, aborted, call, length, defaultMinTicksToWait,
                   logging, qItems, sentLog, recvLog, fifoOk, semVars, extVars>>

\* setDefaultMinTicksToWait that would write the other default wait
setDefaultMinTicksToWait_Max(t, newTicksToWait) ==
    /\ ~aborted
    /\ call[t] = NoCall
    /\ defaultMaxTicksToWait' = newTicksToWait
    /\ last' = [op |-> "setDefaultMinTicksToWait", arg |-> NoItem,
                status |-> pdTRUE, val |-> NoItem]
    /\ UNCHANGED <<NDEBUG, aborted, call, length, defaultMinTicksToWait,
                   logging, qItems, sentLog, recvLog, fifoOk, semVars, extVars>>

\* setDefaultMinTicksToWait(newTicksToWait)
setDefaultMinTicksToWait(t, newTicksToWait) ==
    /\ ~aborted
    /\ call[t] = NoCall
    /\ defaultMinTicksToWait' = newTicksToWait
    /\ last' = [op |-> "setDefaultMinTicksToWait", arg |-> NoItem,
                status |-> pdTRUE, val |-> NoItem]
    /\ UNCHANGED <<NDEBUG, aborted, call, length, defaultMaxTicksToWait,
                   logging, qItems, sentLog, recvLog, fifoOk, semVars, extVars>>

\* a task blocked in a queue call runs again: the kernel retries the call and
\* returns when it succeeds or when the wait has run out
QueueResume(t) ==
    /\ ~aborted
    /\ call[t].op \in SendOps \cup {"receive"}
    /\ IF call[t].op \in SendOps
       THEN LET r == SendKernel(call[t].op, qItems, length, call[t].item) IN
            /\ r.status = pdTRUE \/ call[t].wait = 0
            /\ r.status = pdTRUE => LogRoom(call[t].op)
            /\ FinishSend(call[t].op, call[t].item, r)
            /\ UNCHANGED aborted
       ELSE LET r == xQueueReceive(qItems) IN
            /\ r.status = pdTRUE \/ call[t].wait = 0
            /\ \E uninit \in Items : FinishReceive("receive", r, uninit)
    /\ call' = [call EXCEPT ![t] = NoCall]
    /\ UNCHANGED <<NDEBUG, queueConfig, semVars, extVars>>

\* the tick interrupt: every finite wait in progress gets one tick shorter;
\* a wait that has run out is served before the next tick
Tick ==
    /\ ~aborted
    /\ \E t \in Tasks : call[t] # NoCall /\ call[t].wait # portMAX_DELAY
    /\ \A t \in Tasks : call[t] # NoCall => call[t].wait # 0
    /\ call' = [t \in Tasks |->
                  IF call[t] # NoCall /\ call[t].wait # portMAX_DELAY
                  THEN [call[t] EXCEPT !.wait = @ - 1]
                  ELSE call[t]]
    /\ UNCHANGED <<NDEBUG, aborted, last, queueVars, semVars, extVars>>

SharedInit ==
    /\ NDEBUG \in BOOLEAN
    /\ aborted = FALSE
    /\ call = [t \in Tasks |-> NoCall]
    /\ last = NoLast

\* Queue(queueLength): xQueueCreate gives an empty queue of that capacity
QueueCtor(queueLength) ==
    /\ length = queueLength
    /\ qItems = <<>>
    /\ defaultMaxTicksToWait = portMAX_DELAY
    /\ defaultMinTicksToWait = 0
    /\ sentLog = <<>> /\ recvLog = <<>> /\ fifoOk = logging

\* no Task object in use
TaskUnused ==
    /\ taskSuspended = FALSE
    /\ xTickCount = 0
    /\ currentTickCount = 0
    /\ tskSuspends = 0

\* no wrapper object is constructed or destroyed
LifeUnused ==
    /\ objState = <<>> /\ objKind = <<>> /\ objHandle = <<>>
    /\ created = <<>> /\ deletes = <<>>
    /\ nullCalls = {}

Timers == {"tm1", "tm2"}

\* no group of timers in use
TimersUnused ==
    /\ tmsPeriod = [tm \in Timers |-> 1]
    /\ tmsAutoReload = [tm \in Timers |-> FALSE]
    /\ tmsState = [tm \in Timers |-> "Dormant"]
    /\ tmsRemaining = [tm \in Timers |-> 0]
    /\ tmsQueue = <<>>
    /\ tmsExecuting = {}

\* the Task object is used for nothing but what a section says
TaskInfoUnused ==
    /\ tskLogging = FALSE
    /\ tskPriority = [t \in Tasks |-> basePriority(t)]
    /\ freeStackSpace = 0
    /\ usStackHighWaterMark = 0
    /\ taskStatus = 0

NoConv == [unit |-> "none", count |-> 0]

\* no conversion is made
ConvUnused ==
    /\ portTICK_PERIOD_MS = 1
    /\ convIn = NoConv
    /\ convOut = 0

\* a task that is not delayed
NoWake == -1

\* no task delays or yields
DelayUnused ==
    /\ tskWakeTime = [t \in Tasks |-> NoWake]
    /\ tskLastWake = 0
    /\ tskYielded = "NULL"

\* what the later sections add
MoreUnused == TimersUnused /\ TaskInfoUnused /\ ConvUnused /\ DelayUnused

\* no timer in use
TimerUnused ==
    /\ tmrAutoReload = FALSE
    /\ tmrPeriod = 1
    /\ tmrState = "Dormant"
    /\ tmrRemaining = 0
    /\ tmrQueue = <<>>
    /\ tmrStarts = 0
    /\ tmrFired = 0
    /\ tmrDefaultBlockTime = 0
    /\ tmrQueueLength = 1
    /\ tmrLogging = FALSE
    /\ tmrDestroyed = FALSE
    /\ tmrDeletes = 0

\* no semaphore in use
SemUnused ==
    /\ semKind = "none"
    /\ maxCount = 1 /\ initialCount = 0 /\ semCount = 0
    /\ defaultBlockTime = 0 /\ semHist = <<>>
    /\ semClass = "Semaphore"
    /\ owned = [t \in Tasks |-> 0]
    /\ mutexHolder = NULL
    /\ recursiveCallCount = 0
    /\ uxPriority = [t \in Tasks |-> basePriority(t)]

QueueInit ==
    /\ SharedInit
    /\ TaskUnused /\ LifeUnused /\ TimerUnused /\ MoreUnused
    /\ logging = FALSE
    /\ \E queueLength \in 1..MaxLength : QueueCtor(queueLength)
    /\ SemUnused

QueueNext ==
    \/ \E t \in Tasks, x \in Items, k \in TickType : sendToBack(t, x, k)
    \/ \E t \in Tasks, x \in Items : sendToBackDefault(t, x)
    \/ \E x \in Items : sendToBackFromISR(x)
    \/ \E t \in Tasks, x \in Items, k \in TickType : sendToFront(t, x, k)
    \/ \E t \in Tasks, x \in Items : sendToFrontDefault(t, x)
    \/ \E x \in Items : sendToFrontFromISR(x)
    \/ \E t \in Tasks, k \in TickType : receive(t, k)
    \/ \E t \in Tasks : receiveDefault(t)
    \/ receiveFromISR
    \/ \E t \in Tasks : reset(t)
    \/ \E t \in Tasks : QueueResume(t)
    \/ Tick

QueueSpec == QueueInit /\ [][QueueNext]_vars

\* one task and the interrupt handlers share the queue; the FIFO log is kept
FifoTasks == {"T1"}

FifoInit ==
    /\ SharedInit
    /\ TaskUnused /\ LifeUnused /\ TimerUnused /\ MoreUnused
    /\ logging = TRUE
    /\ \E queueLength \in 1..MaxLength : QueueCtor(queueLength)
    /\ SemUnused

FifoNext ==
    \/ \E t \in FifoTasks, x \in Items, k \in TickType : sendToBack(t, x, k)
    \/ \E t \in FifoTasks, x \in Items : sendToBackDefault(t, x)
    \/ \E x \in Items : sendToBackFromISR(x)
    \/ \E t \in FifoTasks, x \in Items, k \in TickType : sendToFront(t, x, k)
    \/ \E t \in FifoTasks, x \in Items : sendToFrontDefault(t, x)
    \/ \E x \in Items : sendToFrontFromISR(x)
    \/ \E t \in FifoTasks, k \in TickType : receive(t, k)
    \/ \E t \in FifoTasks : receiveDefault(t)
    \/ receiveFromISR
    \/ \E t \in FifoTasks : reset(t)
    \/ \E t \in FifoTasks : QueueResume(t)
    \/ Tick

FifoSpec == FifoInit /\ [][FifoNext]_vars


(* ================= a queue whose default waits are set ================ *)

WaitInit ==
    /\ SharedInit
    /\ TaskUnused /\ LifeUnused /\ TimerUnused /\ MoreUnused
    /\ logging = FALSE
    /\ \E queueLength \in 1..MaxSlots : QueueCtor(queueLength)
    /\ SemUnused

\* one task sends and receives; every task sets the default waits
WaitNext ==
    \/ \E t \in Tasks, k \in TickType : setDefaultMaxTicksToWait(t, k)
    \/ \E t \in Tasks, k \in TickType : setDefaultMinTicksToWait(t, k)
    \/ \E t \in FifoTasks, x \in Items, k \in TickType : sendToBack(t, x, k)
    \/ \E t \in FifoTasks, x \in Items : sendToBackDefault(t, x)
    \/ \E t \in FifoTasks, x \in Items : sendToFrontDefault(t, x)
    \/ \E x \in Items : sendToBackFromISR(x)
    \/ \E t \in FifoTasks, k \in TickType : receive(t, k)
    \/ \E t \in FifoTasks : receiveDefault(t)
    \/ receiveFromISR
    \/ \E t \in FifoTasks : QueueResume(t)
    \/ Tick

WaitSpec == WaitInit /\ [][WaitNext]_vars

(* ================= one receiver waiting for work ====================== *)

\* the task that receives, and the task that sends
Receiver == "T1"
Sender == "T2"

RecvInit ==
    /\ SharedInit
    /\ TaskUnused /\ LifeUnused /\ TimerUnused /\ MoreUnused
    /\ logging = FALSE
    /\ \E queueLength \in 1..MaxLength : QueueCtor(queueLength)
    /\ SemUnused

\* the receiver calls receive() and may change its default wait; the sender
\* and the interrupt handlers send
RecvNext ==
    \/ receiveDefault(Receiver)
    \/ \E k \in TickType : setDefaultMaxTicksToWait(Receiver, k)
    \/ \E x \in Items, k \in TickType : sendToBack(Sender, x, k)
    \/ \E x \in Items : sendToBackFromISR(x)
    \/ \E t \in Tasks : QueueResume(t)
    \/ Tick

\* a task that can run again does
RecvSpec ==
    /\ RecvInit
    /\ [][RecvNext]_vars
    /\ WF_vars(Tick)
    /\ \A t \in Tasks : WF_vars(QueueResume(t))

(* ===================== kernel semaphore interface ===================== *)
\* xSemaphoreCreateBinary: the semaphore is created empty
xSemaphoreCreateBinary == 0

\* xSemaphoreCreateCounting(uxMaxCount, uxInitialCount)
xSemaphoreCreateCounting(uxMaxCount, uxInitialCount) == uxInitialCount

\* xSemaphoreTake / xSemaphoreTakeFromISR on a semaphore holding count
xSemaphoreTake(count) ==
    IF count > 0
    THEN [status |-> pdTRUE, count |-> count - 1]
    ELSE [status |-> pdFALSE, count |-> count]

\* xSemaphoreGive / xSemaphoreGiveFromISR
xSemaphoreGive(count, max) ==
    IF count < max
    THEN [status |-> pdTRUE, count |-> count + 1]
    ELSE [status |-> errQUEUE_FULL, count |-> count]

uxSemaphoreGetCount(count) == count

\* the kernel keeps a holder, a recursion count and priority inheritance only
\* for objects made by xSemaphoreCreateMutex / xSemaphoreCreateRecursiveMutex
IsMutexKind(kind) == kind \in {"mutex", "recursive"}

\* what comparing the holder field with a task handle sees: on an object that
\* is not a mutex the field is part of the queue storage, never a task handle
HolderField(kind, holder) == IF IsMutexKind(kind) THEN holder ELSE "storage"

\* xSemaphoreGetMutexHolder: NULL for an object that is not a mutex
xSemaphoreGetMutexHolder(kind, holder) ==
    IF IsMutexKind(kind) THEN holder ELSE NULL

\* the holder field after task t's take / after a give
HolderAfterTake(kind, holder, t, status) ==
    IF IsMutexKind(kind) /\ status = pdTRUE THEN t ELSE holder
HolderAfterGive(kind, holder, status) ==
    IF IsMutexKind(kind) /\ status = pdTRUE THEN NULL ELSE holder

\* task t blocks on the object: a mutex's holder inherits t's priority
xTaskPriorityInherit(kind, holder, prio, t) ==
    IF IsMutexKind(kind) /\ holder # NULL /\ prio[holder] < prio[t]
    THEN [prio EXCEPT ![holder] = prio[t]]
    ELSE prio

\* task t gives a mutex back: it returns to its own priority
xTaskPriorityDisinherit(kind, prio, t) ==
    IF IsMutexKind(kind) THEN [prio EXCEPT ![t] = basePriority(t)] ELSE prio

\* xSemaphoreTakeRecursive by task t: the holder only counts one level more,
\* any other caller goes through the plain take
xSemaphoreTakeRecursive(kind, holder, depth, count, t) ==
    IF HolderField(kind, holder) = t
    THEN [status |-> pdTRUE, count |-> count, depth |-> depth + 1]
    ELSE LET r == xSemaphoreTake(count) IN
         [status |-> r.status, count |-> r.count,
          depth |-> IF IsMutexKind(kind) /\ r.status = pdTRUE
                    THEN depth + 1 ELSE depth]

\* xSemaphoreGiveRecursive by task t: only the holder can give; the object is
\* released when the count is back to zero
xSemaphoreGiveRecursive(kind, holder, depth, count, max, t) ==
    IF HolderField(kind, holder) = t
    THEN [status |-> pdTRUE, depth |-> depth - 1,
          count |-> IF depth = 1 THEN xSemaphoreGive(count, max).count
                    ELSE count]
    ELSE [status |-> pdFALSE, depth |-> depth, count |-> count]

(* ========================= Semaphore wrappers ========================= *)
getCount == uxSemaphoreGetCount(semCount)

takeRet_AlwaysTrue(status) == TRUE
takeRet(status) == status = pdTRUE

giveRet_AlwaysTrue(status) == TRUE
giveRet(status) == status = pdTRUE

\* the calls made since construction: task-context take and give with their
\* results; any other call closes the record
HistOther == <<[op |-> "other", val |-> FALSE]>>
HistAdd(op, val) ==
    IF /\ semClass = "Semaphore"
       /\ semHist # HistOther /\ Len(semHist) < MaxHist /\ op \in {"take", "give"}
    THEN Append(semHist, [op |-> op, val |-> val])
    ELSE HistOther

semConfig == <<semKind, maxCount, initialCount, defaultBlockTime, semClass>>

\* Semaphore(void): maxCount(1), xSemaphoreCreateBinary(), give()
SemaphoreBinary_NoGive ==
    /\ semKind = "binary"
    /\ maxCount = 1
    /\ initialCount = 0
    /\ semCount = xSemaphoreCreateBinary
    /\ defaultBlockTime = 0
    /\ semHist = <<>>
SemaphoreBinary ==
    /\ semKind = "binary"
    /\ maxCount = 1
    /\ initialCount = 0
    /\ semCount = xSemaphoreGive(xSemaphoreCreateBinary, maxCount).count
    /\ defaultBlockTime = 0
    /\ semHist = <<>>

\* Semaphore(maxSemphrCount, initialCount): xSemaphoreCreateCounting(), give()
SemaphoreCounting_NoGive(maxSemphrCount, initCount) ==
    /\ semKind = "counting"
    /\ maxCount = maxSemphrCount
    /\ initialCount = initCount
    /\ semCount = xSemaphoreCreateCounting(maxCount, initCount)
    /\ defaultBlockTime = 0
    /\ semHist = <<>>
SemaphoreCounting(maxSemphrCount, initCount) ==
    /\ semKind = "counting"
    /\ maxCount = maxSemphrCount
    /\ initialCount = initCount
    /\ semCount = xSemaphoreGive(xSemaphoreCreateCounting(maxCount, initCount),
                                 maxCount).count
    /\ defaultBlockTime = 0
    /\ semHist = <<>>

\* a semaphore call returns val to its caller
FinishSem(op, r, val) ==
    /\ semCount' = r.count
    /\ last' = [op |-> op, arg |-> NoItem, status |-> r.status, val |-> val]
    /\ semHist' = HistAdd(op, val)

\* the Mutex contract's notion of holding: a task holds the object from its
\* own successful take until its own give
OwnAfterTake(t, val) ==
    IF semClass # "Semaphore" /\ val THEN [owned EXCEPT ![t] = @ + 1] ELSE owned
OwnAfterGive(t) ==
    IF semClass # "Semaphore" /\ owned[t] > 0
    THEN [owned EXCEPT ![t] = @ - 1]
    ELSE owned

\* task t's take returned with status
TakeReturns(t, op, r, val) ==
    /\ FinishSem(op, r, val)
    /\ owned' = OwnAfterTake(t, val)
    /\ mutexHolder' = HolderAfterTake(semKind, mutexHolder, t, r.status)
    /\ UNCHANGED uxPriority

\* the kernel blocks task t in its take
TakeBlocks(t, op, ticksToWait) ==
    /\ call' = [call EXCEPT ![t] =
                   [op |-> op, item |-> NoItem, wait |-> ticksToWait]]
    /\ uxPriority' = xTaskPriorityInherit(semKind, mutexHolder, uxPriority, t)
    /\ UNCHANGED <<semCount, last, semHist, owned, mutexHolder>>

take(t, ticksToWait) ==
    /\ ~aborted
    /\ call[t] = NoCall
    /\ owned[t] < MaxDepth
    /\ LET r == xSemaphoreTake(semCount) IN
        IF r.status = pdTRUE \/ ticksToWait = 0
        THEN TakeReturns(t, "take", r, takeRet(r.status)) /\ UNCHANGED call
        ELSE TakeBlocks(t, "take", ticksToWait)
    /\ UNCHANGED <<NDEBUG, aborted, semConfig, recursiveCallCount, queueVars, extVars>>

\* take() that would wait without a time limit
takeDefault_Forever(t) == take(t, portMAX_DELAY)
takeDefault(t) == take(t, defaultBlockTime)

takeFromISR ==
    /\ ~aborted
    /\ LET r == xSemaphoreTake(semCount) IN
        FinishSem("takeFromISR", r, takeRet(r.status))
    /\ UNCHANGED <<NDEBUG, aborted, call, semConfig, owned, mutexHolder,
                   recursiveCallCount, uxPriority, queueVars, extVars>>

give(t) ==
    /\ ~aborted
    /\ call[t] = NoCall
    /\ LET r == xSemaphoreGive(semCount, maxCount) IN
        /\ FinishSem("give", r, giveRet(r.status))
        /\ mutexHolder' = HolderAfterGive(semKind, mutexHolder, r.status)
    /\ owned' = OwnAfterGive(t)
    /\ uxPriority' = xTaskPriorityDisinherit(semKind, uxPriority, t)
    /\ UNCHANGED <<NDEBUG, aborted, call, semConfig, recursiveCallCount,
                   queueVars, extVars>>

giveFromISR ==
    /\ ~aborted
    /\ LET r == xSemaphoreGive(semCount, maxCount) IN
        FinishSem("giveFromISR", r, giveRet(r.status))
    /\ UNCHANGED <<NDEBUG, aborted, call, semConfig, owned, mutexHolder,
                   recursiveCallCount, uxPriority, queueVars, extVars>>

\* a task blocked in take runs again: the kernel retries and returns when the
\* semaphore was obtained or the wait has run out
SemResume(t) ==
    /\ ~aborted
    /\ call[t].op = "take"
    /\ LET r == xSemaphoreTake(semCount) IN
        /\ r.status = pdTRUE \/ call[t].wait = 0
        /\ TakeReturns(t, "take", r, takeRet(r.status))
    /\ call' = [call EXCEPT ![t] = NoCall]
    /\ UNCHANGED <<NDEBUG, aborted, semConfig, recursiveCallCount, queueVars, extVars>>

\* no queue in use
QueueUnused ==
    /\ logging = FALSE
    /\ QueueCtor(1)

\* the class the object is used through; no task holds anything yet
SemaphoreClass(class) ==
    /\ semClass = class
    /\ owned = [t \in Tasks |-> 0]
    /\ mutexHolder = NULL
    /\ recursiveCallCount = 0
    /\ uxPriority = [t \in Tasks |-> basePriority(t)]

SemInit ==
    /\ SharedInit
    /\ QueueUnused
    /\ TaskUnused /\ LifeUnused /\ TimerUnused /\ MoreUnused
    /\ SemaphoreClass("Semaphore")
    /\ \/ SemaphoreBinary
       \/ \E maxSemphrCount \in 1..MaxCount :
            \E initCount \in 0..maxSemphrCount :
                SemaphoreCounting(maxSemphrCount, initCount)

SemNext ==
    \/ \E t \in Tasks, k \in TickType : take(t, k)
    \/ \E t \in Tasks : takeDefault(t)
    \/ takeFromISR
    \/ \E t \in Tasks : give(t)
    \/ giveFromISR
    \/ \E t \in Tasks : SemResume(t)
    \/ Tick

SemSpec == SemInit /\ [][SemNext]_vars


(* ============== a queue and a semaphore that tasks block on =========== *)

\* a queue and a binary semaphore were created; the record of the semaphore
\* calls is closed and no FIFO log is kept
BlockInit ==
    /\ NDEBUG = FALSE
    /\ aborted = FALSE
    /\ call = [t \in Tasks |-> NoCall]
    /\ last = NoLast
    /\ TaskUnused /\ LifeUnused /\ TimerUnused /\ MoreUnused
    /\ logging = FALSE
    /\ \E queueLength \in 1..MaxLength : QueueCtor(queueLength)
    /\ SemaphoreClass("Semaphore")
    /\ semKind = "binary"
    /\ maxCount = 1
    /\ initialCount = 0
    /\ semCount = xSemaphoreGive(xSemaphoreCreateBinary, maxCount).count
    /\ defaultBlockTime = 0
    /\ semHist = HistOther

BlockNext ==
    \/ \E t \in Tasks, k \in TickType : take(t, k)
    \/ \E t \in Tasks : give(t)
    \/ \E t \in Tasks : SemResume(t)
    \/ \E t \in Tasks, x \in Items, k \in TickType : sendToBack(t, x, k)
    \/ receiveFromISR
    \/ \E t \in Tasks : QueueResume(t)
    \/ Tick

\* the tick counter keeps advancing, and a task that can run again does
BlockSpec ==
    /\ BlockInit
    /\ [][BlockNext]_vars
    /\ WF_vars(Tick)
    /\ \A t \in Tasks : WF_vars(SemResume(t)) /\ WF_vars(QueueResume(t))

(* ====================== Mutex and MutexRecursive ====================== *)
\* Mutex(void): Semaphore() {}
Mutex == SemaphoreBinary

\* MutexRecursive(void): Mutex() {}
MutexRecursive == Mutex

\* Semaphore::getHolder, called by task t
getHolder(t) ==
    /\ ~aborted
    /\ call[t] = NoCall
    /\ last' = [op |-> "getHolder", arg |-> t, status |-> pdTRUE,
                val |-> xSemaphoreGetMutexHolder(semKind, mutexHolder)]
    /\ semHist' = HistAdd("getHolder", FALSE)
    /\ UNCHANGED <<NDEBUG, aborted, call, semConfig, semCount, owned,
                   mutexHolder, recursiveCallCount, uxPriority, queueVars, extVars>>

takeRecursiveRet(status) == status = pdTRUE
giveRecursiveRet(status) == status = pdTRUE

takeRecursive(t, ticksToWait) ==
    /\ ~aborted
    /\ call[t] = NoCall
    /\ semClass = "MutexRecursive"
    /\ owned[t] < MaxDepth
    /\ LET r == xSemaphoreTakeRecursive(semKind, mutexHolder,
                                        recursiveCallCount, semCount, t) IN
        IF r.status = pdTRUE \/ ticksToWait = 0
        THEN /\ TakeReturns(t, "takeRecursive", r, takeRecursiveRet(r.status))
             /\ recursiveCallCount' = r.depth
             /\ UNCHANGED call
        ELSE /\ TakeBlocks(t, "takeRecursive", ticksToWait)
             /\ UNCHANGED recursiveCallCount
    /\ UNCHANGED <<NDEBUG, aborted, semConfig, queueVars, extVars>>

takeRecursiveDefault(t) == takeRecursive(t, defaultBlockTime)

\* a task blocked in takeRecursive runs again: the kernel retries the take
RecursiveResume(t) ==
    /\ ~aborted
    /\ call[t].op = "takeRecursive"
    /\ LET r == xSemaphoreTake(semCount) IN
        /\ r.status = pdTRUE \/ call[t].wait = 0
        /\ TakeReturns(t, "takeRecursive", r, takeRecursiveRet(r.status))
        /\ recursiveCallCount' =
              IF IsMutexKind(semKind) /\ r.status = pdTRUE
              THEN recursiveCallCount + 1
              ELSE recursiveCallCount
    /\ call' = [call EXCEPT ![t] = NoCall]
    /\ UNCHANGED <<NDEBUG, aborted, semConfig, queueVars, extVars>>

giveRecursive(t) ==
    /\ ~aborted
    /\ call[t] = NoCall
    /\ semClass = "MutexRecursive"
    /\ LET r == xSemaphoreGiveRecursive(semKind, mutexHolder,
                                        recursiveCallCount, semCount,
                                        maxCount, t) IN
        /\ FinishSem("giveRecursive", r, giveRecursiveRet(r.status))
        /\ recursiveCallCount' = r.depth
        /\ mutexHolder' = IF r.depth = 0
                          THEN HolderAfterGive(semKind, mutexHolder, r.status)
                          ELSE mutexHolder
        /\ uxPriority' = IF r.status = pdTRUE /\ r.depth = 0
                         THEN xTaskPriorityDisinherit(semKind, uxPriority, t)
                         ELSE uxPriority
    /\ owned' = OwnAfterGive(t)
    /\ UNCHANGED <<NDEBUG, aborted, call, semConfig, queueVars, extVars>>

MutexInit ==
    /\ SharedInit
    /\ QueueUnused
    /\ TaskUnused /\ LifeUnused /\ TimerUnused /\ MoreUnused
    /\ \/ Mutex /\ SemaphoreClass("Mutex")
       \/ MutexRecursive /\ SemaphoreClass("MutexRecursive")

MutexNext ==
    \/ \E t \in Tasks, k \in TickType : take(t, k)
    \/ \E t \in Tasks : takeDefault(t)
    \/ \E t \in Tasks : give(t)
    \/ \E t \in Tasks : getHolder(t)
    \/ \E t \in Tasks, k \in TickType : takeRecursive(t, k)
    \/ \E t \in Tasks : takeRecursiveDefault(t)
    \/ \E t \in Tasks : giveRecursive(t)
    \/ \E t \in Tasks : SemResume(t)
    \/ \E t \in Tasks : RecursiveResume(t)
    \/ Tick

MutexSpec == MutexInit /\ [][MutexNext]_vars

(* ===================== interrupt-context methods ====================== *)
\* the task wrapped by the Task object
theTask == "T1"
\* priorities of the task an interrupt can find running (0: the idle task)
Priorities == 0..2

\* vTaskSuspend: suspends do not count
vTaskSuspend(suspended) == TRUE

\* xTaskResumeFromISR: makes a suspended task ready; pdTRUE when the resumed
\* task has to run before the interrupted one
xTaskResumeFromISR(suspended, resumedPriority, runningPriority) ==
    [status |-> IF suspended /\ resumedPriority >= runningPriority
                THEN pdTRUE ELSE pdFALSE,
     suspended |-> FALSE]

xTaskGetTickCountFromISR(count) == count

\* the kernel call each FromISR method makes
takeFromISRCalls == "xSemaphoreTakeFromISR"
giveFromISRCalls == "xSemaphoreGiveFromISR"
sendToBackFromISRCalls == "xQueueSendToBackFromISR"
sendToFrontFromISRCalls == "xQueueSendToBackFromISR"
receiveFromISRCalls == "xQueueReceiveFromISR"
messagesWaitingFromISRCalls == "uxQueueMessagesWaitingFromISR"
resumeFromISRCalls == "xTaskResumeFromISR"
updateTickCountFromISRCalls == "xTaskGetTickCountFromISR"

FromISROps == {"takeFromISR", "giveFromISR", "sendToBackFromISR",
               "sendToFrontFromISR", "receiveFromISR",
               "messagesWaitingFromISR", "resumeFromISR",
               "updateTickCountFromISR"}

KernelCall_TaskContext(op) ==
    CASE op = "takeFromISR" -> "xSemaphoreTake"
      [] op = "giveFromISR" -> giveFromISRCalls
      [] op = "sendToBackFromISR" -> sendToBackFromISRCalls
      [] op = "sendToFrontFromISR" -> sendToFrontFromISRCalls
      [] op = "receiveFromISR" -> receiveFromISRCalls
      [] op = "messagesWaitingFromISR" -> messagesWaitingFromISRCalls
      [] op = "resumeFromISR" -> resumeFromISRCalls
      [] op = "updateTickCountFromISR" -> updateTickCountFromISRCalls
KernelCall(op) ==
    CASE op = "takeFromISR" -> takeFromISRCalls
      [] op = "giveFromISR" -> giveFromISRCalls
      [] op = "sendToBackFromISR" -> sendToBackFromISRCalls
      [] op = "sendToFrontFromISR" -> sendToFrontFromISRCalls
      [] op = "receiveFromISR" -> receiveFromISRCalls
      [] op = "messagesWaitingFromISR" -> messagesWaitingFromISRCalls
      [] op = "resumeFromISR" -> resumeFromISRCalls
      [] op = "updateTickCountFromISR" -> updateTickCountFromISRCalls

\* the kernel calls that may be made from an interrupt handler
InterruptSafeCalls ==
    {"xSemaphoreTakeFromISR", "xSemaphoreGiveFromISR",
     "xQueueSendToBackFromISR", "xQueueSendToFrontFromISR",
     "xQueueReceiveFromISR", "uxQueueMessagesWaitingFromISR",
     "xTaskResumeFromISR", "xTaskGetTickCountFromISR"}

isrFrame ==
    <<NDEBUG, aborted, call, queueVars, semVars, lifeVars, timerVars, moreVars>>

\* Task::suspend on the Task object
suspend ==
    /\ ~aborted
    /\ taskSuspended' = vTaskSuspend(taskSuspended)
    /\ tskSuspends' = IF tskLogging /\ tskSuspends < MaxSuspends
                      THEN tskSuspends + 1 ELSE tskSuspends
    /\ last' = [op |-> "suspend", arg |-> NoItem, status |-> pdTRUE,
                val |-> NoItem]
    /\ UNCHANGED <<xTickCount, currentTickCount, isrFrame>>

resumeFromISR ==
    /\ ~aborted
    /\ \E runningPriority \in Priorities :
         LET r == xTaskResumeFromISR(taskSuspended, tskPriority[theTask],
                                     runningPriority) IN
            /\ taskSuspended' = r.suspended
            /\ tskSuspends' = 0
            /\ last' = [op |-> "resumeFromISR", arg |-> NoItem,
                        status |-> r.status, val |-> (r.status = pdTRUE)]
    /\ UNCHANGED <<xTickCount, currentTickCount, isrFrame>>

updateTickCountFromISR ==
    /\ ~aborted
    /\ currentTickCount' = xTaskGetTickCountFromISR(xTickCount)
    /\ last' = [op |-> "updateTickCountFromISR", arg |-> NoItem,
                status |-> pdTRUE, val |-> currentTickCount']
    /\ UNCHANGED <<taskSuspended, xTickCount, tskSuspends, isrFrame>>

\* Queue<T>::messagesWaitingFromISR called from an interrupt handler
messagesWaitingFromISRCall ==
    /\ ~aborted
    /\ last' = [op |-> "messagesWaitingFromISR", arg |-> NoItem,
                status |-> pdTRUE, val |-> messagesWaitingFromISR]
    /\ UNCHANGED <<taskVars, isrFrame>>

\* the tick interrupt counts one tick
IncrementTick ==
    /\ ~aborted
    /\ xTickCount < MaxTickCount
    /\ xTickCount' = xTickCount + 1
    /\ UNCHANGED <<taskSuspended, currentTickCount, tskSuspends, last, isrFrame>>

\* a queue, a binary semaphore and a Task object, used from interrupt handlers;
\* currentTickCount has no initialiser
IsrInit ==
    /\ SharedInit
    /\ logging = FALSE
    /\ \E queueLength \in 1..MaxLength : QueueCtor(queueLength)
    /\ SemaphoreBinary /\ SemaphoreClass("Semaphore")
    /\ taskSuspended = FALSE
    /\ xTickCount = 0
    /\ currentTickCount \in 0..MaxTickCount
    /\ tskSuspends = 0
    /\ LifeUnused /\ TimerUnused /\ MoreUnused

\* the FromISR method op is called
FromISR(op) ==
    CASE op = "takeFromISR" -> takeFromISR
      [] op = "giveFromISR" -> giveFromISR
      [] op = "sendToBackFromISR" -> \E x \in Items : sendToBackFromISR(x)
      [] op = "sendToFrontFromISR" -> \E x \in Items : sendToFrontFromISR(x)
      [] op = "receiveFromISR" -> receiveFromISR
      [] op = "messagesWaitingFromISR" -> messagesWaitingFromISRCall
      [] op = "resumeFromISR" -> resumeFromISR
      [] op = "updateTickCountFromISR" -> updateTickCountFromISR

IsrNext ==
    \/ takeFromISR
    \/ giveFromISR
    \/ \E x \in Items : sendToBackFromISR(x)
    \/ \E x \in Items : sendToFrontFromISR(x)
    \/ receiveFromISR
    \/ messagesWaitingFromISRCall
    \/ resumeFromISR
    \/ updateTickCountFromISR
    \/ suspend
    \/ IncrementTick

IsrSpec == IsrInit /\ [][IsrNext]_vars

(* ======================= the Task object's methods ===================== *)

taskFrame ==
    <<NDEBUG, aborted, call, queueVars, semVars, lifeVars, timerVars,
      timersVars, convVars, delayVars>>

\* vTaskPrioritySet: the priority of task xTask becomes uxNewPriority
vTaskPrioritySet(priority, xTask, uxNewPriority) ==
    [priority EXCEPT ![xTask] = uxNewPriority]

\* uxTaskPriorityGet: the priority of task xTask, of the calling task when
\* xTask is NULL
uxTaskPriorityGet(priority, xTask, caller) ==
    IF xTask = NULL THEN priority[caller] ELSE priority[xTask]

\* vTaskResume: the task is suspended no longer
vTaskResume(suspended) == FALSE

\* vTaskGetInfo: the usStackHighWaterMark field of the snapshot; the least
\* free stack when xGetFreeStackSpace is not pdFALSE, otherwise 0 (skipped)
vTaskGetInfo(highWaterMark, xGetFreeStackSpace) ==
    IF xGetFreeStackSpace # 0 THEN highWaterMark ELSE 0

\* setPriority(newPriority), called by task t: vTaskPrioritySet(handle, ..)
setPriority(t, newPriority) ==
    /\ ~aborted
    /\ tskPriority' = vTaskPrioritySet(tskPriority, theTask, newPriority)
    /\ last' = [op |-> "setPriority", arg |-> t, status |-> pdTRUE,
                val |-> NoItem]
    /\ UNCHANGED <<taskVars, tskLogging, freeStackSpace, usStackHighWaterMark,
                   taskStatus, taskFrame>>

\* getPriority(), called by task t: uxTaskPriorityGet(NULL)
getPriority(t) ==
    /\ ~aborted
    /\ last' = [op |-> "getPriority", arg |-> t, status |-> pdTRUE,
                val |-> uxTaskPriorityGet(tskPriority, NULL, t)]
    /\ UNCHANGED <<taskVars, tskInfo, taskFrame>>

\* resume() that would leave the task as it is
resume_Noop ==
    /\ ~aborted
    /\ last' = [op |-> "resume", arg |-> NoItem, status |-> pdTRUE,
                val |-> tskSuspends]
    /\ UNCHANGED <<taskVars, tskInfo, taskFrame>>

\* resume(): vTaskResume(handle); noted with the number of suspend() calls
\* it followed
resume ==
    /\ ~aborted
    /\ taskSuspended' = vTaskResume(taskSuspended)
    /\ tskSuspends' = 0
    /\ last' = [op |-> "resume", arg |-> NoItem, status |-> pdTRUE,
                val |-> tskSuspends]
    /\ UNCHANGED <<xTickCount, currentTickCount, tskInfo, taskFrame>>

\* getInfo(): vTaskGetInfo(handle, &status, freeStackSpace, eInvalid); the
\* member freeStackSpace is the argument xGetFreeStackSpace
getInfo ==
    taskStatus' = vTaskGetInfo(usStackHighWaterMark, freeStackSpace)

\* getFreeStackSpace(): getInfo(); return freeStackSpace
getFreeStackSpace(t) ==
    /\ ~aborted
    /\ getInfo
    /\ last' = [op |-> "getFreeStackSpace", arg |-> t, status |-> pdTRUE,
                val |-> freeStackSpace]
    /\ UNCHANGED <<taskVars, tskLogging, tskPriority, freeStackSpace,
                   usStackHighWaterMark, taskFrame>>

\* the wrapped task uses more of its stack than ever before
StackUse ==
    /\ ~aborted
    /\ usStackHighWaterMark > 0
    /\ usStackHighWaterMark' = usStackHighWaterMark - 1
    /\ UNCHANGED <<taskVars, tskLogging, tskPriority, freeStackSpace,
                   taskStatus, last, taskFrame>>

\* the Task object was created: the members status and freeStackSpace have no
\* initialiser and are set by no constructor
TaskInit ==
    /\ NDEBUG = FALSE
    /\ aborted = FALSE
    /\ call = [t \in Tasks |-> NoCall]
    /\ last = NoLast
    /\ QueueUnused
    /\ SemUnused
    /\ LifeUnused /\ TimerUnused /\ TimersUnused /\ ConvUnused
    /\ DelayUnused
    /\ taskSuspended = FALSE
    /\ xTickCount = 0
    /\ currentTickCount = 0
    /\ tskSuspends = 0
    /\ tskLogging = TRUE
    /\ tskPriority = [t \in Tasks |-> basePriority(t)]
    /\ usStackHighWaterMark = MaxStack
    /\ freeStackSpace \in 0..MaxStack
    /\ taskStatus \in 0..MaxStack

TaskNext ==
    \/ \E t \in Tasks, p \in Priorities : setPriority(t, p)
    \/ \E t \in Tasks : getPriority(t)
    \/ suspend
    \/ resume
    \/ resumeFromISR
    \/ \E t \in Tasks : getFreeStackSpace(t)
    \/ StackUse

TaskSpec == TaskInit /\ [][TaskNext]_vars

(* ===================== tasks that delay and yield ===================== *)

delayFrame ==
    <<NDEBUG, aborted, call, queueVars, semVars, lifeVars, timerVars,
      timersVars, tskInfo, convVars>>

\* tick counts are of type TickType_t
TickWrap(n) == n % (2 ^ TickBits)

\* task t is in the Blocked state until its wake time
Delayed(t) == tskWakeTime[t] # NoWake

\* task t can make a call
CanRun(t) == ~Delayed(t) /\ (t = theTask => ~taskSuspended)

\* the largest wake time of a run
MaxWakeTime == MaxWakeTick + MaxPeriod

\* vTaskDelay: the calling task is blocked until xTicksToDelay ticks from
\* now; with 0 ticks it only gives up the processor
vTaskDelay(now, xTicksToDelay) ==
    IF xTicksToDelay > 0 THEN TickWrap(now + xTicksToDelay) ELSE NoWake

\* vTaskDelayUntil: the wake time is *pxPreviousWakeTime + xTimeIncrement,
\* which is stored in *pxPreviousWakeTime; the calling task is blocked until
\* then if that time has not passed yet
vTaskDelayUntil(previousWakeTime, xTimeIncrement, now) ==
    LET xTimeToWake == TickWrap(previousWakeTime + xTimeIncrement)
        xShouldDelay ==
            IF now < previousWakeTime
            THEN xTimeToWake < previousWakeTime /\ xTimeToWake > now
            ELSE xTimeToWake < previousWakeTime \/ xTimeToWake > now
    IN [previousWakeTime |-> xTimeToWake,
        wake |-> IF xShouldDelay THEN xTimeToWake ELSE NoWake]

xTaskGetTickCount(count) == count

\* delay(ticksToDelay) that would block the wrapped task
delay_Wrapped(t, ticksToDelay) ==
    /\ ~aborted
    /\ CanRun(t)
    /\ tskWakeTime' = [tskWakeTime EXCEPT
                          ![theTask] = vTaskDelay(xTickCount, ticksToDelay)]
    /\ tskYielded' = theTask
    /\ last' = [op |-> "delay", arg |-> t, status |-> pdTRUE,
                val |-> ticksToDelay]
    /\ UNCHANGED <<taskVars, tskLastWake, delayFrame>>

\* delay(ticksToDelay), called by task t: vTaskDelay(ticksToDelay)
delay(t, ticksToDelay) ==
    /\ ~aborted
    /\ CanRun(t)
    /\ tskWakeTime' = [tskWakeTime EXCEPT
                          ![t] = vTaskDelay(xTickCount, ticksToDelay)]
    /\ tskYielded' = t
    /\ last' = [op |-> "delay", arg |-> t, status |-> pdTRUE,
                val |-> ticksToDelay]
    /\ UNCHANGED <<taskVars, tskLastWake, delayFrame>>

\* delayUntil(ticksToIncrement), called by task t:
\* delayUntil(&currentTickCount, ticksToIncrement), which is
\* vTaskDelayUntil(previousWakeTime, ticksToIncrement)
delayUntil(t, ticksToIncrement) ==
    /\ ~aborted
    /\ CanRun(t)
    /\ currentTickCount + ticksToIncrement <= MaxWakeTime
    /\ LET r == vTaskDelayUntil(currentTickCount, ticksToIncrement,
                                xTickCount) IN
        /\ currentTickCount' = r.previousWakeTime
        /\ tskLastWake' = r.previousWakeTime
        /\ tskWakeTime' = [tskWakeTime EXCEPT ![t] = r.wake]
        /\ tskYielded' = IF r.wake # NoWake THEN t ELSE tskYielded
    /\ last' = [op |-> "delayUntil", arg |-> t, status |-> pdTRUE,
                val |-> ticksToIncrement]
    /\ UNCHANGED <<taskSuspended, xTickCount, tskSuspends, delayFrame>>

\* yield(), called by task t: taskYIELD()
yield(t) ==
    /\ ~aborted
    /\ CanRun(t)
    /\ tskYielded' = t
    /\ last' = [op |-> "yield", arg |-> t, status |-> pdTRUE, val |-> NoItem]
    /\ UNCHANGED <<taskVars, tskWakeTime, tskLastWake, delayFrame>>

\* updateTickCount(), called by task t
updateTickCount(t) ==
    /\ ~aborted
    /\ CanRun(t)
    /\ currentTickCount' = xTaskGetTickCount(xTickCount)
    /\ last' = [op |-> "updateTickCount", arg |-> t, status |-> pdTRUE,
                val |-> currentTickCount']
    /\ UNCHANGED <<taskSuspended, xTickCount, tskSuspends, delayVars,
                   delayFrame>>

\* getTickCount(), called by task t
getTickCount(t) ==
    /\ ~aborted
    /\ CanRun(t)
    /\ last' = [op |-> "getTickCount", arg |-> t, status |-> pdTRUE,
                val |-> currentTickCount]
    /\ UNCHANGED <<taskVars, delayVars, delayFrame>>

\* the tick interrupt counts one tick and wakes the tasks delayed until it
DelayTick ==
    /\ ~aborted
    /\ xTickCount < MaxWakeTick
    /\ xTickCount' = xTickCount + 1
    /\ tskWakeTime' = [t \in Tasks |->
                          IF tskWakeTime[t] = xTickCount' THEN NoWake
                          ELSE tskWakeTime[t]]
    /\ UNCHANGED <<taskSuspended, currentTickCount, tskSuspends, tskLastWake,
                   tskYielded, last, delayFrame>>

\* a Task object was created for task theTask and the scheduler runs;
\* currentTickCount has no initialiser
DelayInit ==
    /\ NDEBUG = FALSE
    /\ aborted = FALSE
    /\ call = [t \in Tasks |-> NoCall]
    /\ last = NoLast
    /\ QueueUnused
    /\ SemUnused
    /\ LifeUnused /\ TimerUnused /\ TimersUnused /\ ConvUnused
    /\ TaskInfoUnused
    /\ taskSuspended = FALSE
    /\ xTickCount = 0
    /\ currentTickCount \in 0..MaxTickCount
    /\ tskSuspends = 0
    /\ tskWakeTime = [t \in Tasks |-> NoWake]
    /\ tskLastWake = currentTickCount
    /\ tskYielded = "NULL"

DelayNext ==
    \/ \E t \in Tasks, n \in 0..MaxPeriod : delay(t, n)
    \/ \E t \in Tasks, p \in 1..MaxPeriod : delayUntil(t, p)
    \/ \E t \in Tasks : yield(t)
    \/ \E t \in Tasks : updateTickCount(t)
    \/ updateTickCountFromISR
    \/ \E t \in Tasks : getTickCount(t)
    \/ \E t \in Tasks, p \in Priorities : setPriority(t, p)
    \/ suspend
    \/ resume
    \/ DelayTick

DelaySpec == DelayInit /\ [][DelayNext]_vars

(* ================== FreeRTOS: durations and ticks ====================== *)

\* TickType_t holds the values 0 .. TickModulus - 1; the count of a
\* std::chrono duration is a signed integer of at least 45 bits (ms), far
\* wider than any value that occurs here
TickModulus == 2^TickBits

\* conversion of an integer to TickType_t
ToTickType(n) == n % TickModulus

\* convertToTicks(std::chrono::milliseconds): msec.count() / portTICK_PERIOD_MS
convertToTicksMs(msec) == ToTickType(msec \div portTICK_PERIOD_MS)

\* convertToTicks(seconds) that would forget the factor 1000
convertToTicksSec_Unscaled(sec) == ToTickType(sec \div portTICK_PERIOD_MS)

\* convertToTicks(std::chrono::seconds): sec.count() * 1000 / portTICK_PERIOD_MS
convertToTicksSec(sec) == ToTickType((sec * 1000) \div portTICK_PERIOD_MS)

\* convertToTicks(std::chrono::minutes)
convertToTicksMin(minutes) ==
    ToTickType((minutes * 60 * 1000) \div portTICK_PERIOD_MS)

\* convertToTicks(std::chrono::hours)
convertToTicksHours(hours) ==
    ToTickType((hours * 60 * 60 * 1000) \div portTICK_PERIOD_MS)

\* convertToTime(ticks): the product is computed in TickType_t
convertToTime(ticks) == ToTickType(ticks * portTICK_PERIOD_MS)

Units == {"ms", "s", "min", "h"}

\* the overload the argument type selects
convertToTicks(unit, count) ==
    CASE unit = "ms" -> convertToTicksMs(count)
      [] unit = "s" -> convertToTicksSec(count)
      [] unit = "min" -> convertToTicksMin(count)
      [] unit = "h" -> convertToTicksHours(count)

\* tick counts near 0, around the middle and at the end of TickType_t
TickSamples ==
    (0..MaxDuration)
    \cup {TickModulus \div 2 - 1, TickModulus \div 2, TickModulus - 1}

convFrame ==
    <<sharedVars, queueVars, semVars, taskVars, lifeVars, timerVars,
      timersVars, tskInfo, delayVars>>

\* convertToTicks(d) for a duration d of count units
ToTicks(unit, count) ==
    /\ convIn' = [unit |-> unit, count |-> count]
    /\ convOut' = convertToTicks(unit, count)
    /\ UNCHANGED <<portTICK_PERIOD_MS, convFrame>>

\* convertToTime(ticks).count()
ToTime(ticks) ==
    /\ convIn' = [unit |-> "ticks", count |-> ticks]
    /\ convOut' = convertToTime(ticks)
    /\ UNCHANGED <<portTICK_PERIOD_MS, convFrame>>

\* convertToTicks(convertToTime(ticks))
RoundTrip(ticks) ==
    /\ convIn' = [unit |-> "round trip", count |-> ticks]
    /\ convOut' = convertToTicksMs(convertToTime(ticks))
    /\ UNCHANGED <<portTICK_PERIOD_MS, convFrame>>

\* the build fixes the tick period
ConvInit ==
    /\ SharedInit
    /\ QueueUnused
    /\ SemUnused
    /\ TaskUnused /\ LifeUnused /\ TimerUnused
    /\ TimersUnused /\ TaskInfoUnused /\ DelayUnused
    /\ portTICK_PERIOD_MS \in 1..MaxTickPeriod
    /\ convIn = NoConv
    /\ convOut = 0

ConvNext ==
    \/ \E unit \in Units, count \in 0..MaxDuration : ToTicks(unit, count)
    \/ \E ticks \in TickSamples : ToTime(ticks)
    \/ \E ticks \in TickSamples : RoundTrip(ticks)

ConvSpec == ConvInit /\ [][ConvNext]_vars

(* ==================== construction and destruction ==================== *)
Objects == 1..MaxObjects
Handles == 1..MaxHandles
\* the null handle
NullHandle == 0
Kinds == {"Semaphore", "Queue", "Task", "Timer"}

lifeFrame ==
    <<NDEBUG, call, last, queueVars, semVars, taskVars, timerVars, moreVars>>

\* a kernel call is made with handle h
KernelUse(h, name) == IF h = NullHandle THEN nullCalls \cup {name} ELSE nullCalls

\* the kernel call a constructor makes after its create call:
\* Semaphore gives, Queue adds itself to the registry when asked to
ConstructorCall(kind, addToRegistry) ==
    CASE kind = "Semaphore" -> "xSemaphoreGive"
      [] kind = "Queue" /\ addToRegistry -> "vQueueAddToRegistry"
      [] OTHER -> "none"

\* the delete call of each destructor
DestructorCall(kind) ==
    CASE kind = "Semaphore" -> "vSemaphoreDelete"
      [] kind = "Queue" -> "vQueueDelete"
      [] kind = "Task" -> "vTaskDelete"
      [] kind = "Timer" -> "xTimerDelete"

\* a constructor runs for object o: the create call returns handle h, null
\* when the kernel has no memory; assert(handle != NULL) aborts unless it is
\* compiled out, and then the constructor goes on with the null handle
Construct(o, kind, h, addToRegistry) ==
    /\ ~aborted
    /\ objState[o] = "none"
    /\ h # NullHandle => ~created[h]
    /\ created' = IF h = NullHandle THEN created ELSE [created EXCEPT ![h] = TRUE]
    /\ IF h = NullHandle /\ ~NDEBUG
       THEN /\ aborted' = TRUE
            /\ UNCHANGED <<objState, objKind, objHandle, nullCalls>>
       ELSE /\ aborted' = aborted
            /\ objState' = [objState EXCEPT ![o] = "live"]
            /\ objKind' = [objKind EXCEPT ![o] = kind]
            /\ objHandle' = [objHandle EXCEPT ![o] = h]
            /\ nullCalls' = IF ConstructorCall(kind, addToRegistry) = "none"
                            THEN nullCalls
                            ELSE KernelUse(h, ConstructorCall(kind, addToRegistry))
    /\ UNCHANGED <<deletes, lifeFrame>>

\* the implicit copy constructor: every field is copied, the handle too
Copy(o, from) ==
    /\ ~aborted
    /\ objState[o] = "none"
    /\ objState[from] = "live"
    /\ objState' = [objState EXCEPT ![o] = "live"]
    /\ objKind' = [objKind EXCEPT ![o] = objKind[from]]
    /\ objHandle' = [objHandle EXCEPT ![o] = objHandle[from]]
    /\ UNCHANGED <<created, deletes, nullCalls, aborted, lifeFrame>>

\* any method of the live object o: a kernel call with its handle
Use(o) ==
    /\ ~aborted
    /\ objState[o] = "live"
    /\ nullCalls' = KernelUse(objHandle[o], "method")
    /\ UNCHANGED <<objState, objKind, objHandle, created, deletes, aborted,
                   lifeFrame>>

\* the destructor of o: the delete call on its handle; xTimerDelete can fail
\* to queue its command, and ~Timer asserts that it did not
Destroy(o, ret) ==
    /\ ~aborted
    /\ objState[o] = "live"
    /\ ret = pdFALSE => objKind[o] = "Timer"
    /\ nullCalls' = KernelUse(objHandle[o], DestructorCall(objKind[o]))
    /\ deletes' = IF objHandle[o] # NullHandle /\ ret = pdPASS
                  THEN [deletes EXCEPT ![objHandle[o]] =
                           IF @ < 2 THEN @ + 1 ELSE @]
                  ELSE deletes
    /\ aborted' = (ret # pdPASS /\ ~NDEBUG)
    /\ objState' = [objState EXCEPT ![o] = "destroyed"]
    /\ UNCHANGED <<objKind, objHandle, created, lifeFrame>>

LifeInit ==
    /\ SharedInit
    /\ QueueUnused
    /\ SemUnused
    /\ TaskUnused /\ TimerUnused /\ MoreUnused
    /\ objState = [o \in Objects |-> "none"]
    /\ objKind = [o \in Objects |-> "Semaphore"]
    /\ objHandle = [o \in Objects |-> NullHandle]
    /\ created = [h \in Handles |-> FALSE]
    /\ deletes = [h \in Handles |-> 0]
    /\ nullCalls = {}

LifeNext ==
    \/ \E o \in Objects, kind \in Kinds, h \in Handles \cup {NullHandle},
          addToRegistry \in BOOLEAN : Construct(o, kind, h, addToRegistry)
    \/ \E o \in Objects, from \in Objects : Copy(o, from)
    \/ \E o \in Objects : Use(o)
    \/ \E o \in Objects, ret \in {pdPASS, pdFALSE} : Destroy(o, ret)

LifeSpec == LifeInit /\ [][LifeNext]_vars

(* =============================== Timer ================================ *)
\* xTimerCreate: the timer is created Dormant; it reloads when the
\* auto-reload argument is not 0
xTimerCreate(period, uxAutoReload) ==
    [period |-> period, autoReload |-> (uxAutoReload # 0), state |-> "Dormant"]

\* a timer command: its kind and, for a change of period, the new period
Cmd(op, period) == [op |-> op, period |-> period]

\* the new period of a blocked setPeriod call, kept in the call's item field
PeriodItem(period) == ToString(period)
ItemPeriod(item) ==
    IF \E p \in 1..MaxPeriod : PeriodItem(p) = item
    THEN CHOOSE p \in 1..MaxPeriod : PeriodItem(p) = item
    ELSE 0

\* xTimerStart, xTimerStop, xTimerReset, xTimerChangePeriod: the command is
\* put on the timer command queue when there is room
xTimerGenericCommand(q, cmd) ==
    IF Len(q) < tmrQueueLength
    THEN [status |-> pdPASS, queue |-> Append(q, cmd)]
    ELSE [status |-> pdFALSE, queue |-> q]

xTimerIsTimerActive(state) == IF state = "Running" THEN pdTRUE ELSE pdFALSE

\* the conversion (int) timerAutoReload
IntOfBool(b) == IF b THEN 1 ELSE 0

\* Timer(name, timerPeriod, timerAutoReload, callback)
Timer(timerPeriod, timerAutoReload) ==
    LET tmr == xTimerCreate(timerPeriod, IntOfBool(timerAutoReload)) IN
        /\ tmrPeriod = tmr.period
        /\ tmrAutoReload = tmr.autoReload
        /\ tmrState = tmr.state
        /\ tmrRemaining = 0
        /\ tmrQueue = <<>>
        /\ tmrStarts = 0
        /\ tmrFired = 0
        /\ tmrDefaultBlockTime = 0
        /\ tmrDestroyed = FALSE
        /\ tmrDeletes = 0

isActive_AlwaysTrue == TRUE
isActive_AlwaysFalse == FALSE
isActive == IF xTimerIsTimerActive(tmrState) = pdFALSE THEN FALSE ELSE TRUE

\* the value start, stop, reset and setPeriod return
commandRet_AlwaysTrue(status) == TRUE
commandRet(status) == IF status = pdTRUE THEN TRUE ELSE FALSE

timerLife == <<tmrDestroyed, tmrDeletes>>
timerFrame ==
    <<NDEBUG, aborted, queueVars, semVars, taskVars, lifeVars, moreVars,
      timerLife>>
timerConfig ==
    <<tmrAutoReload, tmrPeriod, tmrDefaultBlockTime, tmrQueueLength, tmrLogging>>

\* what a call about command cmd shows its caller, and how it waits
CmdArg(cmd) == IF cmd.op = "setPeriod" THEN PeriodItem(cmd.period) ELSE NoItem
CmdLast(cmd, status) ==
    [op |-> cmd.op, arg |-> NoItem, status |-> status,
     val |-> commandRet(status)]

\* task t submits a command: returns at once when the command queue has room
\* or the block time is 0, otherwise the kernel blocks the caller
TimerCommand(t, cmd, blockTime) ==
    /\ ~aborted
    /\ ~tmrDestroyed
    /\ call[t] = NoCall
    /\ LET r == xTimerGenericCommand(tmrQueue, cmd) IN
        IF r.status = pdPASS \/ blockTime = 0
        THEN /\ tmrQueue' = r.queue
             /\ last' = CmdLast(cmd, r.status)
             /\ UNCHANGED call
        ELSE /\ call' = [call EXCEPT ![t] =
                            [op |-> cmd.op, item |-> CmdArg(cmd),
                             wait |-> blockTime]]
             /\ UNCHANGED <<tmrQueue, last>>
    /\ UNCHANGED <<tmrState, tmrRemaining, tmrStarts, tmrFired, timerConfig,
                   timerFrame>>

start(t, blockTime) == TimerCommand(t, Cmd("start", 0), blockTime)
startDefault(t) == start(t, tmrDefaultBlockTime)
stop(t, blockTime) == TimerCommand(t, Cmd("stop", 0), blockTime)
\* reset(blockTime) that would submit a stop command
timerReset_Stop(t, blockTime) == TimerCommand(t, Cmd("stop", 0), blockTime)
timerReset(t, blockTime) == TimerCommand(t, Cmd("reset", 0), blockTime)
setPeriod(t, newPeriod, blockTime) ==
    TimerCommand(t, Cmd("setPeriod", newPeriod), blockTime)

TimerOps == {"start", "stop", "reset", "setPeriod"}

\* the command a blocked call is about
CallCmd(c) == Cmd(c.op, ItemPeriod(c.item))

\* a task blocked on the full command queue runs again
TimerResume(t) ==
    /\ ~aborted
    /\ call[t].op \in TimerOps
    /\ LET r == xTimerGenericCommand(tmrQueue, CallCmd(call[t])) IN
        /\ r.status = pdPASS \/ call[t].wait = 0
        /\ tmrQueue' = r.queue
        /\ last' = CmdLast(CallCmd(call[t]), r.status)
    /\ call' = [call EXCEPT ![t] = NoCall]
    /\ UNCHANGED <<tmrState, tmrRemaining, tmrStarts, tmrFired, timerConfig,
                   timerFrame>>

\* what processing a command makes of the timer: start and reset make it
\* Running with a full period ahead, stop makes it Dormant, delete ends it, a
\* change of period sets the period and makes it Running with the new period
\* ahead
Processed(cmd, state, period, remaining) ==
    CASE cmd.op = "stop" ->
           [state |-> "Dormant", period |-> period, remaining |-> 0]
      [] cmd.op = "delete" ->
           [state |-> "Deleted", period |-> period, remaining |-> 0]
      [] cmd.op = "setPeriod" ->
           [state |-> "Running", period |-> cmd.period,
            remaining |-> cmd.period]
      [] OTHER ->
           [state |-> "Running", period |-> period, remaining |-> period]

\* the timer-service task processes the oldest command
ProcessCommand ==
    /\ ~aborted
    /\ tmrQueue # <<>>
    /\ (tmrLogging /\ Head(tmrQueue).op = "start") => tmrStarts < MaxStarts
    /\ tmrQueue' = Tail(tmrQueue)
    /\ LET tmr == Processed(Head(tmrQueue), tmrState, tmrPeriod, tmrRemaining) IN
        /\ tmrState' = tmr.state
        /\ tmrPeriod' = tmr.period
        /\ tmrRemaining' = tmr.remaining
    /\ tmrStarts' = IF tmrLogging /\ Head(tmrQueue).op = "start"
                    THEN tmrStarts + 1
                    ELSE tmrStarts
    /\ UNCHANGED <<tmrFired, tmrAutoReload, tmrDefaultBlockTime, tmrQueueLength,
                   tmrLogging, call, last,
                   timerFrame>>

\* the period of the Running timer has run out: the timer-service task runs
\* the callback; an auto-reload timer starts its next period, a one-shot timer
\* becomes Dormant
Expire ==
    /\ ~aborted
    /\ tmrState = "Running" /\ tmrRemaining = 0
    /\ tmrLogging => tmrFired < MaxFires
    /\ tmrFired' = IF tmrLogging THEN tmrFired + 1 ELSE tmrFired
    /\ IF tmrAutoReload
       THEN tmrState' = "Running" /\ tmrRemaining' = tmrPeriod
       ELSE tmrState' = "Dormant" /\ tmrRemaining' = 0
    /\ UNCHANGED <<tmrQueue, tmrStarts, timerConfig, call, last, timerFrame>>

\* the tick interrupt: the Running timer and every finite wait in progress get
\* one tick shorter; what has run out is served before the next tick
TimerTick ==
    /\ ~aborted
    /\ \/ tmrState = "Running"
       \/ \E t \in Tasks : call[t] # NoCall /\ call[t].wait # portMAX_DELAY
    /\ tmrState = "Running" => tmrRemaining > 0
    /\ \A t \in Tasks : call[t] # NoCall => call[t].wait # 0
    /\ tmrRemaining' = IF tmrState = "Running" THEN tmrRemaining - 1
                       ELSE tmrRemaining
    /\ call' = [t \in Tasks |->
                  IF call[t] # NoCall /\ call[t].wait # portMAX_DELAY
                  THEN [call[t] EXCEPT !.wait = @ - 1]
                  ELSE call[t]]
    /\ UNCHANGED <<tmrState, tmrQueue, tmrStarts, tmrFired, timerConfig, last,
                   timerFrame>>

\* the timer was created; none of the operations below reaches an assert, so
\* the build with asserts stands for both
TimerInit ==
    /\ NDEBUG = FALSE
    /\ aborted = FALSE
    /\ call = [t \in Tasks |-> NoCall]
    /\ last = NoLast
    /\ QueueUnused
    /\ SemUnused
    /\ TaskUnused /\ LifeUnused /\ MoreUnused
    /\ \E timerPeriod \in 1..MaxPeriod, timerAutoReload \in BOOLEAN :
          Timer(timerPeriod, timerAutoReload)
    /\ tmrQueueLength = 1
    /\ tmrLogging = TRUE

\* one task uses the timer
TimerNext ==
    \/ \E t \in FifoTasks, k \in TickType : start(t, k)
    \/ \E t \in FifoTasks : startDefault(t)
    \/ \E t \in FifoTasks, k \in TickType : stop(t, k)
    \/ \E t \in FifoTasks, k \in TickType : timerReset(t, k)
    \/ \E t \in FifoTasks, p \in 1..MaxPeriod, k \in TickType :
          setPeriod(t, p, k)
    \/ \E t \in FifoTasks : TimerResume(t)
    \/ ProcessCommand
    \/ Expire
    \/ TimerTick

TimerSpec == TimerInit /\ [][TimerNext]_vars

\* the same timer with a command queue of MaxCmds entries, the counts of
\* processed starts and callback runs not kept
CmdInit ==
    /\ NDEBUG = FALSE
    /\ aborted = FALSE
    /\ call = [t \in Tasks |-> NoCall]
    /\ last = NoLast
    /\ QueueUnused
    /\ SemUnused
    /\ TaskUnused /\ LifeUnused /\ MoreUnused
    /\ \E timerPeriod \in 1..MaxPeriod, timerAutoReload \in BOOLEAN :
          Timer(timerPeriod, timerAutoReload)
    /\ tmrQueueLength = MaxCmds
    /\ tmrLogging = FALSE

CmdSpec == CmdInit /\ [][TimerNext]_vars

(* ---------------- the default block time and the destructor ----------- *)

dtorFrame == <<NDEBUG, queueVars, semVars, taskVars, lifeVars, moreVars>>

\* setDefaultBlockTime(newBlockTime)
setDefaultBlockTime(t, newBlockTime) ==
    /\ ~aborted
    /\ ~tmrDestroyed
    /\ call[t] = NoCall
    /\ tmrDefaultBlockTime' = newBlockTime
    /\ last' = [op |-> "setDefaultBlockTime", arg |-> NoItem,
                status |-> pdTRUE, val |-> NoItem]
    /\ UNCHANGED <<tmrAutoReload, tmrPeriod, tmrState, tmrRemaining, tmrQueue,
                   tmrStarts, tmrFired, tmrQueueLength, tmrLogging, timerLife,
                   call, aborted, dtorFrame>>

\* the end of ~Timer with the result r of xTimerDelete: assert(ret == pdPASS)
DtorReturn(r) ==
    /\ tmrQueue' = r.queue
    /\ tmrDeletes' = IF r.status = pdPASS THEN tmrDeletes + 1 ELSE tmrDeletes
    /\ aborted' = (r.status # pdPASS /\ ~NDEBUG)
    /\ tmrDestroyed' = TRUE
    /\ last' = [op |-> "delete", arg |-> NoItem, status |-> r.status,
                val |-> NoItem]

\* ~Timer: xTimerDelete(handle, defaultBlockTime) puts the delete command on
\* the command queue; on a full queue the kernel blocks the caller for up to
\* the default block time
TimerDtor(t) ==
    /\ ~aborted
    /\ ~tmrDestroyed
    /\ call[t] = NoCall
    /\ LET r == xTimerGenericCommand(tmrQueue, Cmd("delete", 0)) IN
        IF r.status = pdPASS \/ tmrDefaultBlockTime = 0
        THEN DtorReturn(r) /\ UNCHANGED call
        ELSE /\ call' = [call EXCEPT ![t] =
                            [op |-> "delete", item |-> NoItem,
                             wait |-> tmrDefaultBlockTime]]
             /\ UNCHANGED <<tmrQueue, tmrDeletes, aborted, tmrDestroyed, last>>
    /\ UNCHANGED <<tmrState, tmrRemaining, tmrStarts, tmrFired, timerConfig,
                   dtorFrame>>

\* the task blocked in ~Timer runs again
DtorResume(t) ==
    /\ ~aborted
    /\ call[t].op = "delete"
    /\ LET r == xTimerGenericCommand(tmrQueue, Cmd("delete", 0)) IN
        /\ r.status = pdPASS \/ call[t].wait = 0
        /\ DtorReturn(r)
    /\ call' = [call EXCEPT ![t] = NoCall]
    /\ UNCHANGED <<tmrState, tmrRemaining, tmrStarts, tmrFired, timerConfig,
                   dtorFrame>>

\* the timer was created, with assert compiled in or out
DtorInit ==
    /\ SharedInit
    /\ QueueUnused
    /\ SemUnused
    /\ TaskUnused /\ LifeUnused /\ MoreUnused
    /\ \E timerPeriod \in 1..MaxPeriod, timerAutoReload \in BOOLEAN :
          Timer(timerPeriod, timerAutoReload)
    /\ tmrQueueLength = 1
    /\ tmrLogging = FALSE

\* one task uses the timer and destroys it
DtorNext ==
    \/ \E t \in FifoTasks : startDefault(t)
    \/ \E t \in FifoTasks, k \in TickType : stop(t, k)
    \/ \E t \in FifoTasks, k \in TickType : setDefaultBlockTime(t, k)
    \/ \E t \in FifoTasks : TimerDtor(t)
    \/ \E t \in FifoTasks : DtorResume(t)
    \/ \E t \in FifoTasks : TimerResume(t)
    \/ ProcessCommand
    \/ Expire
    \/ TimerTick

DtorSpec == DtorInit /\ [][DtorNext]_vars

(* ================ several timers and the timer-service task ============ *)

\* the timer-service task: it processes the commands and runs the callbacks
TimerService == "Tmr Svc"

\* the timer-service task is between two pieces of work
ServiceIdle == \A e \in tmsExecuting : e[1] # TimerService

timersFrame ==
    <<NDEBUG, aborted, call, queueVars, semVars, taskVars, lifeVars, timerVars,
      tskInfo, convVars, delayVars>>

\* a timer command that names its timer
TimerCmd(op, tm) == [op |-> op, timer |-> tm]

\* start() and stop() of Timer object tm, called by task t: the command goes
\* on the command queue if there is room (default block time 0)
CommandOf(t, tm, op) ==
    /\ ~aborted
    /\ LET r == xTimerGenericCommand(tmsQueue, TimerCmd(op, tm)) IN
        /\ tmsQueue' = r.queue
        /\ last' = [op |-> op, arg |-> tm, status |-> r.status,
                    val |-> commandRet(r.status)]
    /\ UNCHANGED <<tmsPeriod, tmsAutoReload, tmsState, tmsRemaining,
                   tmsExecuting, timersFrame>>

\* start() that would run the callback itself, in the caller's context
startOf_RunsCallback(t, tm) ==
    /\ ~aborted
    /\ tmsExecuting' = tmsExecuting \cup {<<t, tm>>}
    /\ last' = [op |-> "start", arg |-> tm, status |-> pdPASS, val |-> TRUE]
    /\ UNCHANGED <<tmsPeriod, tmsAutoReload, tmsState, tmsRemaining, tmsQueue,
                   timersFrame>>

startOf(t, tm) == CommandOf(t, tm, "start")
stopOf(t, tm) == CommandOf(t, tm, "stop")

\* the timer-service task, between two pieces of work, processes the oldest
\* command
ServiceCommand ==
    /\ ~aborted
    /\ ServiceIdle
    /\ tmsQueue # <<>>
    /\ LET cmd == Head(tmsQueue) IN
        /\ tmsState' = [tmsState EXCEPT ![cmd.timer] =
                           IF cmd.op = "stop" THEN "Dormant" ELSE "Running"]
        /\ tmsRemaining' = [tmsRemaining EXCEPT ![cmd.timer] =
                               IF cmd.op = "stop" THEN 0
                               ELSE tmsPeriod[cmd.timer]]
    /\ tmsQueue' = Tail(tmsQueue)
    /\ UNCHANGED <<tmsPeriod, tmsAutoReload, tmsExecuting, last, timersFrame>>

\* the timer-service task, between two pieces of work, finds timer tm expired:
\* it re-arms or retires the timer and calls its callback
ServiceExpire(tm) ==
    /\ ~aborted
    /\ ServiceIdle
    /\ tmsState[tm] = "Running"
    /\ tmsRemaining[tm] = 0
    /\ tmsExecuting' = tmsExecuting \cup {<<TimerService, tm>>}
    /\ IF tmsAutoReload[tm]
       THEN /\ tmsRemaining' = [tmsRemaining EXCEPT ![tm] = tmsPeriod[tm]]
            /\ UNCHANGED tmsState
       ELSE /\ tmsState' = [tmsState EXCEPT ![tm] = "Dormant"]
            /\ UNCHANGED tmsRemaining
    /\ UNCHANGED <<tmsPeriod, tmsAutoReload, tmsQueue, last, timersFrame>>

\* a callback returns to the context that called it
CallbackReturn ==
    /\ ~aborted
    /\ \E e \in tmsExecuting : tmsExecuting' = tmsExecuting \ {e}
    /\ UNCHANGED <<tmsPeriod, tmsAutoReload, tmsState, tmsRemaining, tmsQueue,
                   last, timersFrame>>

\* the tick interrupt: every running period gets one tick shorter; a period
\* that has run out waits for the timer-service task
TimersTick ==
    /\ ~aborted
    /\ \E tm \in Timers : tmsState[tm] = "Running" /\ tmsRemaining[tm] > 0
    /\ tmsRemaining' = [tm \in Timers |->
                          IF tmsState[tm] = "Running" /\ tmsRemaining[tm] > 0
                          THEN tmsRemaining[tm] - 1
                          ELSE tmsRemaining[tm]]
    /\ UNCHANGED <<tmsPeriod, tmsAutoReload, tmsState, tmsQueue, tmsExecuting,
                   last, timersFrame>>

\* every Timer object was created, with its period and auto-reload flag
TimersInit ==
    /\ NDEBUG = FALSE
    /\ aborted = FALSE
    /\ call = [t \in Tasks |-> NoCall]
    /\ last = NoLast
    /\ QueueUnused
    /\ SemUnused
    /\ TaskUnused /\ LifeUnused /\ TimerUnused
    /\ TaskInfoUnused /\ ConvUnused /\ DelayUnused
    /\ tmsPeriod \in [Timers -> 1..MaxPeriod]
    /\ tmsAutoReload \in [Timers -> BOOLEAN]
    /\ tmsState = [tm \in Timers |->
                     xTimerCreate(tmsPeriod[tm],
                                  IntOfBool(tmsAutoReload[tm])).state]
    /\ tmsRemaining = [tm \in Timers |-> 0]
    /\ tmsQueue = <<>>
    /\ tmsExecuting = {}

TimersNext ==
    \/ \E t \in Tasks, tm \in Timers : startOf(t, tm)
    \/ \E t \in Tasks, tm \in Timers : stopOf(t, tm)
    \/ ServiceCommand
    \/ \E tm \in Timers : ServiceExpire(tm)
    \/ CallbackReturn
    \/ TimersTick

TimersSpec == TimersInit /\ [][TimersNext]_vars

(* ============================== claims ================================ *)

\* C1: FIFO law.  While only sendToBack and receive have been used since the
\* queue was last empty, the items sent are the items received so far followed
\* by the items still queued, in the order sent, and messagesWaiting() is the
\* number sent and not yet received.
C1_FifoLaw ==
    fifoOk => /\ sentLog = recvLog \o qItems
              /\ messagesWaiting = Len(sentLog) - Len(recvLog)

\* two different items were sent to the back and both came out of receive
C1_Witness ==
    /\ fifoOk
    /\ Len(sentLog) >= 2
    /\ sentLog[1] # sentLog[2]
    /\ recvLog = sentLog

\* C2: front-priority law.  After a successful sendToFront(x) or
\* sendToFrontFromISR(x) on a queue holding items sent by sendToBack, the next
\* receive returns x.
C2_FrontPriority ==
    [][(/\ last'.op \in FrontOps
        /\ last'.val = TRUE
        /\ fifoOk
        /\ Len(qItems) >= 1
        /\ Len(qItems') = Len(qItems) + 1)
       => xQueueReceive(qItems').item = last'.arg]_vars

\* C3: a sendToBack with zero wait on a full queue returns false at once and
\* leaves messagesWaiting() at the capacity and the queued items as they were.
C3_FullSendFails ==
    [][\A t \in Tasks, x \in Items :
        (sendToBack(t, x, 0) /\ messagesWaiting = length)
        => /\ last'.op = "sendToBack"
           /\ last'.val = FALSE
           /\ call'[t] = NoCall
           /\ messagesWaiting' = length
           /\ qItems' = qItems]_vars

\* a zero-wait sendToBack has just failed on a full queue of two or more items
C3_Witness ==
    /\ last.op = "sendToBack"
    /\ last.val = FALSE
    /\ length >= 2
    /\ messagesWaiting = length
    /\ \A t \in Tasks : call[t] = NoCall

\* C4: queue occupancy invariant.  In every reachable state
\* 0 <= messagesWaiting() <= capacity and
\* spacesAvailable() = capacity - messagesWaiting().
C4_Occupancy ==
    /\ 0 <= messagesWaiting
    /\ messagesWaiting <= length
    /\ messagesWaitingFromISR = messagesWaiting
    /\ spacesAvailable = length - messagesWaiting

\* the queue is full while one task is blocked sending and the other has
\* just had a call return
C4_Witness ==
    /\ messagesWaiting = length
    /\ length >= 2
    /\ \E t \in Tasks : call[t].op \in SendOps
    /\ last.op \in {"sendToBackFromISR", "sendToFront", "reset", "receive"}

\* C5: a receive whose wait runs out on an empty queue reports the timeout to
\* its caller as a failure result and the program goes on; it never aborts.
C5_ReceiveTimeoutReported ==
    [][\A t \in Tasks :
        (/\ call[t].op = "receive"
         /\ call[t].wait = 0
         /\ messagesWaiting = 0
         /\ QueueResume(t))
        => (~aborted' /\ last'.op = "receive" /\ last'.val \notin Items)]_vars

\* C6: receiveFromISR on an empty queue gives its caller a result that cannot
\* be taken for a received item.
C6_ReceiveFromISRReported ==
    (last.op = "receiveFromISR" /\ last.status # pdTRUE)
    => last.val \notin Items

\* C7: a freshly default-constructed semaphore has getCount() = 1, its first
\* take succeeds and a second take without a give in between fails.
C7_BinaryFresh ==
    semKind = "binary" =>
        /\ semHist = <<>> => getCount = 1
        /\ (Len(semHist) >= 1 /\ semHist[1].op = "take") => semHist[1].val = TRUE
        /\ (Len(semHist) >= 2 /\ semHist[1].op = "take" /\ semHist[2].op = "take")
           => (semHist[2].val = FALSE /\ (Len(semHist) = 2 => getCount = 0))

C7_Witness ==
    /\ semKind = "binary"
    /\ semHist = <<[op |-> "take", val |-> TRUE], [op |-> "take", val |-> FALSE]>>

\* C8: a counting semaphore constructed with (maxCount, initialCount) has
\* getCount() = initialCount right after construction.
C8_InitialCount ==
    (semKind = "counting" /\ semHist = <<>> /\ last = NoLast)
    => getCount = initialCount

\* the first n calls since construction were all take()
AllTakes(n) ==
    /\ semHist # HistOther
    /\ Len(semHist) >= n
    /\ \A i \in 1..n : semHist[i].op = "take"

C10_CountInvariant ==
    [][/\ 0 <= getCount /\ getCount <= maxCount
       /\ 0 <= getCount' /\ getCount' <= maxCount'
       /\ \A t \in Tasks :
            (give(t) /\ getCount = maxCount)
            => (last'.op = "give" /\ last'.val = FALSE /\ getCount' = getCount)
       /\ (giveFromISR /\ getCount = maxCount)
            => (last'.op = "giveFromISR" /\ last'.val = FALSE /\ getCount' = getCount)
       /\ \A t \in Tasks :
            (take(t, 0) /\ getCount = 0)
            => (last'.op = "take" /\ last'.val = FALSE /\ getCount' = getCount
                /\ call'[t] = NoCall)
       /\ (takeFromISR /\ getCount = 0)
            => (last'.op = "takeFromISR" /\ last'.val = FALSE /\ getCount' = getCount)
      ]_vars

\* a give has just been refused on a semaphore that was constructed at its
\* maximum count, so the constructor's give was refused too
C10_Witness ==
    /\ semKind = "counting"
    /\ initialCount = maxCount
    /\ maxCount >= 2
    /\ last.op = "give"
    /\ last.val = FALSE
    /\ getCount = maxCount

\* the tasks that hold the mutex: own take succeeded, own give not yet made
Holders == {t \in Tasks : owned[t] > 0}

\* C11: at most one task holds a given Mutex at any time, under any
\* interleaving of take() and give() by any tasks.
C11_MutualExclusion ==
    semClass = "Mutex" => Cardinality(Holders) <= 1

\* C12: while a lower-priority task holds a Mutex and a higher-priority task
\* is blocked in take() on it, the holder's effective priority is at least
\* that of the blocked task.
C12_PriorityInheritance ==
    \A lo \in Tasks, hi \in Tasks :
        /\ semClass = "Mutex"
        /\ owned[lo] > 0
        /\ call[hi].op = "take"
        /\ basePriority(lo) < basePriority(hi)
        => uxPriority[lo] >= uxPriority[hi]

\* C13: getHolder() called by the task that holds the Mutex returns that
\* task's own handle; called while no task holds it, it does not return the
\* caller's handle.
C13_HolderQuery ==
    (semClass = "Mutex" /\ last.op = "getHolder") =>
        /\ owned[last.arg] > 0 => last.val = last.arg
        /\ Holders = {} => last.val # last.arg

\* C14: a task that already holds a MutexRecursive and calls takeRecursive
\* again, with any wait value, gets true without blocking, and its recursion
\* depth grows by one.
C14_NoSelfDeadlock ==
    [][\A t \in Tasks, k \in TickType :
         (semClass = "MutexRecursive" /\ owned[t] >= 1 /\ takeRecursive(t, k))
         => /\ call'[t] = NoCall
            /\ last'.op = "takeRecursive" /\ last'.val = TRUE
            /\ owned'[t] = owned[t] + 1]_vars

\* C15: a giveRecursive by the only holder of a MutexRecursive makes the mutex
\* available to other tasks exactly when it balances the holder's last
\* outstanding takeRecursive; an earlier giveRecursive leaves it unavailable.
C15_BalancedRelease ==
    [][\A t \in Tasks :
         (/\ semClass = "MutexRecursive"
          /\ Holders = {t} /\ semCount = 0
          /\ giveRecursive(t))
         => (semCount' > 0 <=> owned[t] = 1)]_vars

\* C16: giveRecursive by a task that does not hold the MutexRecursive returns
\* false and leaves holder, depth and availability as they were; giveRecursive
\* by a task that holds it returns true.
C16_GiveRecursiveResult ==
    [][\A t \in Tasks :
         (semClass = "MutexRecursive" /\ giveRecursive(t))
         => IF owned[t] = 0
            THEN /\ last'.val = FALSE
                 /\ UNCHANGED <<owned, semCount, mutexHolder,
                                recursiveCallCount>>
            ELSE last'.val = TRUE]_vars

\* C17: every FromISR method can be called in every state, returns in the
\* same step without blocking any task, and makes only an interrupt-safe
\* kernel call.
C17_InterruptContext ==
    /\ [](~aborted => \A op \in FromISROps : ENABLED FromISR(op))
    /\ [][\A op \in FromISROps :
            FromISR(op) => /\ last'.op = op
                           /\ call' = call
                           /\ KernelCall(op) \in InterruptSafeCalls]_vars

\* a FromISR send has just failed on the full queue while the semaphore is
\* taken and the task suspended
C17_Witness ==
    /\ last.op = "sendToFrontFromISR" /\ last.status = errQUEUE_FULL
    /\ Len(qItems) = length
    /\ semCount = 0
    /\ taskSuspended

\* C18: no two live wrapper objects refer to the same kernel handle, no live
\* wrapper refers to a deleted handle, no handle is deleted twice, and the
\* handle of a destroyed wrapper has been deleted.
C18_HandleExclusivity ==
    ~aborted =>
    /\ \A o1 \in Objects, o2 \in Objects :
          (/\ o1 # o2
           /\ objState[o1] = "live" /\ objState[o2] = "live"
           /\ objHandle[o1] # NullHandle)
          => objHandle[o1] # objHandle[o2]
    /\ \A o \in Objects :
          (objState[o] = "live" /\ objHandle[o] # NullHandle)
          => deletes[objHandle[o]] = 0
    /\ \A h \in Handles : deletes[h] <= 1
    /\ \A o \in Objects :
          (objState[o] = "destroyed" /\ objHandle[o] # NullHandle)
          => deletes[objHandle[o]] = 1

\* C19: no kernel call is ever made with a null handle: a failed create call
\* ends the program before the constructor or any method uses the handle.
C19_FatalConstructionFailure ==
    nullCalls = {}

C21_AutoReload ==
    /\ [][(tmrAutoReload /\ Expire)
          => /\ tmrFired' = tmrFired + 1
             /\ tmrState' = "Running" /\ isActive'
             /\ tmrRemaining' = tmrPeriod]_vars
    /\ [][(tmrAutoReload /\ tmrFired' # tmrFired)
          => (tmrState = "Running" /\ tmrRemaining = 0)]_vars
    /\ [][(tmrAutoReload /\ tmrState = "Running" /\ tmrState' # "Running")
          => (ProcessCommand /\ Head(tmrQueue).op = "stop")]_vars
    /\ [][(ProcessCommand /\ Head(tmrQueue).op = "stop")
          => (tmrState' = "Dormant" /\ ~isActive')]_vars
    /\ [][(TimerTick /\ tmrState = "Running")
          => tmrRemaining' = tmrRemaining - 1]_vars
    /\ []((tmrState = "Running") = isActive)
    /\ []((tmrAutoReload /\ tmrState = "Dormant") => ~ENABLED Expire)
    /\ [][(tmrAutoReload /\ tmrState = "Dormant" /\ tmrState' = "Running")
          => (ProcessCommand
              /\ Head(tmrQueue).op \in {"start", "reset", "setPeriod"})]_vars

\* an auto-reload Timer that fired twice after one start and was then stopped
C21_Witness ==
    /\ tmrAutoReload
    /\ tmrStarts = 1 /\ tmrFired = 2
    /\ tmrState = "Dormant" /\ ~isActive
    /\ last.op = "stop" /\ tmrQueue = <<>>
\* C22: a start, stop, reset or setPeriod call returns true exactly when its
\* command was put on the timer command queue, behind the commands submitted
\* before it, and false when the queue stayed full until the block time ran
\* out; the call leaves the timer's state and period as they are: the state
\* changes only when the timer-service task processes a command or the period
\* expires, the period only when it processes a setPeriod command, and it
\* processes the commands oldest first.
C22_AsynchronousCommands ==
    /\ [][Len(tmrQueue') > Len(tmrQueue)
          => /\ tmrQueue' = Append(tmrQueue, tmrQueue'[Len(tmrQueue')])
             /\ last'.op = tmrQueue'[Len(tmrQueue')].op
             /\ last'.val = TRUE
             /\ \A t \in FifoTasks : call'[t] = NoCall]_vars
    /\ [][(tmrQueue' = tmrQueue /\ ~(ProcessCommand \/ Expire \/ TimerTick))
          => /\ Len(tmrQueue) = tmrQueueLength
             /\ \/ /\ \E t \in FifoTasks :
                         /\ call[t] = NoCall /\ call'[t].op \in TimerOps
                         /\ call'[t].wait > 0
                    /\ last'.op = last.op
                 \/ /\ last'.op \in TimerOps /\ last'.val = FALSE
                    /\ \A t \in FifoTasks :
                         \/ call[t] = NoCall /\ call'[t] = NoCall
                         \/ /\ call[t].op = last'.op /\ call[t].wait = 0
                            /\ call'[t] = NoCall]_vars
    /\ [][(tmrQueue' = tmrQueue /\ call' = call
           /\ ~(ProcessCommand \/ Expire \/ TimerTick))
          => \A t \in FifoTasks, k \in TickType, p \in 0..MaxPeriod :
                TimerCommand(t, Cmd(last'.op, p), k) => k = 0]_vars
    /\ [][Len(tmrQueue') > Len(tmrQueue)
          => UNCHANGED <<tmrState, tmrPeriod, tmrRemaining>>]_vars
    /\ [][tmrState' # tmrState => (ProcessCommand \/ Expire)]_vars
    /\ [][tmrPeriod' # tmrPeriod
          => (/\ ProcessCommand
              /\ Head(tmrQueue).op = "setPeriod"
              /\ tmrPeriod' = Head(tmrQueue).period)]_vars
    /\ [][ProcessCommand
          => LET tmr == Processed(Head(tmrQueue), tmrState, tmrPeriod,
                                  tmrRemaining) IN
             /\ tmrQueue' = Tail(tmrQueue)
             /\ tmrState' = tmr.state
             /\ tmrPeriod' = tmr.period]_vars
    /\ [][tmrQueue' # tmrQueue
          => \/ ProcessCommand /\ tmrQueue' = Tail(tmrQueue)
             \/ /\ Len(tmrQueue') = Len(tmrQueue) + 1
                /\ SubSeq(tmrQueue', 1, Len(tmrQueue)) = tmrQueue]_vars

\* a setPeriod call has returned true with its command waiting behind a
\* start command, the timer still Dormant with its old period
C22_Witness ==
    /\ Len(tmrQueue) = 2
    /\ tmrQueue[1].op = "start"
    /\ tmrQueue[2].op = "setPeriod" /\ tmrQueue[2].period # tmrPeriod
    /\ last.op = "setPeriod" /\ last.val = TRUE
    /\ tmrState = "Dormant"
\* C23: at most one Timer callback is executing at any time, and it executes
\* in the timer-service task, also when the periods of several timers have run
\* out together; while a callback executes every task can still run and make
\* its calls.
C23_CallbacksSerialized ==
    /\ [](Cardinality(tmsExecuting) <= 1)
    /\ [](\A e \in tmsExecuting : e[1] = TimerService)
    /\ [](tmsExecuting # {}
          => \A t \in Tasks, tm \in Timers : ENABLED startOf(t, tm))

\* two periods have run out together: the callback of one timer is executing,
\* the other timer waits for the timer-service task, and a task has made a
\* call meanwhile
C23_Witness ==
    /\ tmsExecuting = {<<TimerService, "tm1">>}
    /\ tmsState["tm2"] = "Running" /\ tmsRemaining["tm2"] = 0
    /\ tmsQueue # <<>>
\* C24: ~Timer submits exactly one delete command, waiting for room on the
\* command queue for the default block time of the object, and when the
\* command was not accepted in that time the program is ended: the destructor
\* never returns without its delete command submitted.
C24_DestructorFatal ==
    /\ [](tmrDeletes <= 1)
    /\ []((tmrDestroyed /\ ~aborted) => tmrDeletes = 1)
    /\ [](aborted => tmrDeletes = 0)
    /\ [][\A t \in FifoTasks :
            (call[t] = NoCall /\ call'[t].op = "delete")
            => call'[t].wait = tmrDefaultBlockTime]_vars
\* C25: getPriority() on the Task object returns the priority the kernel
\* keeps for the wrapped task, whichever task makes the call.
C25_PriorityRoundTrip ==
    last.op = "getPriority" => last.val = tskPriority[theTask]

\* C26: suspend() makes the task suspended however often it is called, one
\* resume() or resumeFromISR() makes it schedulable again after any number of
\* suspend() calls, and resume() on a task that is not suspended changes
\* nothing about the task.
C26_SuspendsDoNotNest ==
    /\ [][suspend => taskSuspended']_vars
    /\ [][(resume \/ resumeFromISR) => ~taskSuspended']_vars
    /\ [][(resume /\ ~taskSuspended)
          => UNCHANGED <<taskSuspended, tskPriority, xTickCount>>]_vars
    /\ [](tskSuspends > 0 => taskSuspended)
    /\ [](tskSuspends = 0 => ~taskSuspended)

\* the task was resumed by one resume() after two suspend() calls
C26_Witness ==
    /\ last.op = "resume"
    /\ last.val = 2
    /\ ~taskSuspended

\* C27: resumeFromISR() returns true exactly when the call made a suspended
\* task schedulable again.
C27_ResumeFromISRResult ==
    [][resumeFromISR
       => (last'.val = (taskSuspended /\ ~taskSuspended'))]_vars

\* C28: getFreeStackSpace() returns the least free stack of the wrapped task
\* at the time of the call.
C28_FreeStackSpace ==
    [][(\E t \in Tasks : getFreeStackSpace(t))
       => last'.val = usStackHighWaterMark]_vars
\* C29: convertToTicks(convertToTime(ticks)) is ticks, for every tick count
\* of TickType_t and every tick period.
C29_MillisecondRoundTrip ==
    convIn.unit = "round trip" => convOut = convIn.count

\* the duration of the last conversion in ms
InMs ==
    CASE convIn.unit = "ms" -> convIn.count
      [] convIn.unit = "s" -> convIn.count * 1000
      [] convIn.unit = "min" -> convIn.count * 60 * 1000
      [] convIn.unit = "h" -> convIn.count * 60 * 60 * 1000
      [] OTHER -> 0

\* C30 as stated: convertToTicks(d) is floor(d in ms / P) for every duration.
C30_Floor ==
    convIn.unit \in Units => convOut = InMs \div portTICK_PERIOD_MS

\* C30, amended: convertToTicks(d) is floor(d in ms / P) whenever that number
\* of ticks fits TickType_t, and that number modulo 2^w otherwise; a duration
\* shorter than one tick gives 0 ticks, and the overloads agree on equal
\* durations.
C30_ConversionTruncates ==
    convIn.unit \in Units
    => LET ticks == InMs \div portTICK_PERIOD_MS IN
       /\ ticks < TickModulus => convOut = ticks
       /\ convOut = ticks % TickModulus
       /\ ticks * portTICK_PERIOD_MS <= InMs
       /\ InMs < (ticks + 1) * portTICK_PERIOD_MS
       /\ InMs < portTICK_PERIOD_MS => convOut = 0
       /\ convOut = convertToTicksMs(InMs)
       /\ InMs % 1000 = 0 => convOut = convertToTicksSec(InMs \div 1000)
       /\ InMs % 60000 = 0 => convOut = convertToTicksMin(InMs \div 60000)
       /\ InMs % 3600000 = 0
            => convOut = convertToTicksHours(InMs \div 3600000)

\* one second was converted, with the result 1000 ms have
C30_Witness ==
    /\ convIn = [unit |-> "s", count |-> 1]
    /\ portTICK_PERIOD_MS = 2
    /\ convOut = 500
    /\ convOut = convertToTicksMs(1000)
\* what a blocked call waits for: the semaphore, or room in the queue
Obtainable(op) ==
    IF op = "take" THEN semCount > 0 ELSE Len(qItems) < length

\* C31: a task blocked in take(ticks) or sendToBack(item, ticks) with a finite
\* ticks value eventually returns; it is blocked only while the semaphore or
\* the room in the queue is missing; nothing but the tick shortens its wait
\* and nothing but its own return ends it: the return is true when the task
\* obtained the semaphore or the room, and false only when the wait has run
\* out without it.
C31_BoundedBlocking ==
    /\ \A t \in Tasks :
          (call[t] # NoCall /\ call[t].wait # portMAX_DELAY)
          ~> (call[t] = NoCall)
    /\ [][\A t \in Tasks :
            (call[t] = NoCall /\ call'[t] # NoCall)
            => (~Obtainable(call'[t].op) /\ call'[t].wait > 0)]_vars
    /\ [][\A t \in Tasks :
            (call[t] # NoCall /\ call'[t] # call[t])
            => \/ /\ call[t].wait \notin {0, portMAX_DELAY}
                  /\ call'[t] = [call[t] EXCEPT !.wait = @ - 1]
                  /\ UNCHANGED <<qItems, semCount, last>>
               \/ /\ call'[t] = NoCall
                  /\ last'.op = call[t].op
                  /\ last'.val = Obtainable(call[t].op)
                  /\ ~last'.val => call[t].wait = 0]_vars

\* the wait of a task blocked in take has run out while the other task is
\* blocked in sendToBack
C31_Witness ==
    /\ call["T1"].op = "take" /\ call["T1"].wait = 0
    /\ call["T2"].op = "sendToBack" /\ call["T2"].wait # portMAX_DELAY
\* the receiver is blocked in receive() without a time limit
WaitsForWork ==
    /\ call[Receiver].op = "receive"
    /\ call[Receiver].wait = portMAX_DELAY

\* C32: with the default wait as constructed, receive() on an empty queue
\* blocks the caller without a time limit; the caller stays blocked, its wait
\* untouched, for as long as the queue is empty, and once the queue holds an
\* item the caller eventually returns, with the item at the head of the queue.
C32_ReceiveWaitsForWork ==
    /\ [][(/\ receiveDefault(Receiver)
           /\ defaultMaxTicksToWait = portMAX_DELAY /\ qItems = <<>>)
          => (WaitsForWork' /\ UNCHANGED <<qItems, aborted>>)]_vars
    /\ [](WaitsForWork /\ qItems = <<>> => ~ENABLED QueueResume(Receiver))
    /\ [][(WaitsForWork /\ call'[Receiver] # call[Receiver])
          => /\ qItems # <<>>
             /\ call'[Receiver] = NoCall
             /\ last'.op = "receive" /\ last'.val = Head(qItems)
             /\ qItems' = Tail(qItems)
             /\ ~aborted']_vars
    /\ (WaitsForWork /\ qItems # <<>>) ~> (call[Receiver] = NoCall)

\* the receiver is blocked without a time limit and the sender has sent an
\* item
C32_Witness ==
    /\ WaitsForWork
    /\ defaultMaxTicksToWait = portMAX_DELAY
    /\ last.op = "sendToBack" /\ last.val = TRUE
    /\ qItems = <<last.arg>>
\* the calls that take an item out of the queue
ReceiveOps == {"receive", "receiveFromISR"}

\* C33: a reset() that returns true leaves the queue empty in the same step:
\* messagesWaiting() is 0 and spacesAvailable() is the capacity; the step
\* completes no blocked call, so that no blocked sender returns by it and no
\* item of a blocked sender enters the queue; and a receive returns only the
\* item at the head of the queue it finds, so that none of the discarded
\* items is returned later.
C33_ResetEmpties ==
    /\ [][(\E t \in Tasks : reset(t)) =>
            /\ last'.op = "reset"
            /\ (last'.val = TRUE =>
                    /\ messagesWaiting' = 0
                    /\ spacesAvailable' = length
                    /\ qItems' = <<>>
                    /\ call' = call)]_vars
    /\ [][(last'.op \in ReceiveOps /\ qItems' # qItems) =>
            /\ qItems # <<>>
            /\ last'.val = Head(qItems)
            /\ qItems' = Tail(qItems)]_vars
    /\ [](last.op = "reset" /\ last.val = TRUE =>
            messagesWaiting = 0 /\ spacesAvailable = length)

\* reset() has just returned true while a sender is blocked
C33_Witness ==
    /\ last.op = "reset" /\ last.val = TRUE
    /\ qItems = <<>>
    /\ \E t \in Tasks : call[t].op = "sendToBack" /\ call[t].wait > 0
\* C34: the last-wake tick that delayUntil(period) keeps is changed by
\* delayUntil(period) only, and every delayUntil(period) sets the wake time
\* exactly period ticks after the wake time the previous one set.
C34_LastWakeInternal ==
    /\ [][currentTickCount' # currentTickCount
          => \E t \in Tasks, p \in 1..MaxPeriod : delayUntil(t, p)]_vars
    /\ [][\A t \in Tasks, p \in 1..MaxPeriod :
            delayUntil(t, p) => tskLastWake' = TickWrap(tskLastWake + p)]_vars
\* C35: reset(blockTime) submits a reset command; when the timer-service
\* task processes it on a Running timer, the timer stays Running with a full
\* period ahead and no callback runs in that step; after that only a tick
\* shortens the time to the expiry, by one, and the callback runs only when
\* none of it is left: the next expiry is a period after the processing, not
\* at the time scheduled before.
C35_ResetRestartsPeriod ==
    /\ [][(/\ Len(tmrQueue') > Len(tmrQueue)
           /\ \E t \in FifoTasks, k \in TickType : timerReset(t, k))
          => tmrQueue' = Append(tmrQueue, Cmd("reset", 0))]_vars
    /\ [][(/\ ProcessCommand
           /\ Head(tmrQueue).op = "reset"
           /\ tmrState = "Running")
          => /\ tmrState' = "Running"
             /\ tmrRemaining' = tmrPeriod
             /\ UNCHANGED <<tmrPeriod, tmrFired>>]_vars
    /\ [][(tmrState = "Running" /\ tmrRemaining' < tmrRemaining)
          => \/ tmrRemaining' = tmrRemaining - 1 /\ UNCHANGED tmrFired
             \/ tmrState' # "Running"
             \/ Head(tmrQueue).op = "setPeriod"]_vars
    /\ [][tmrFired' # tmrFired
          => tmrState = "Running" /\ tmrRemaining = 0]_vars

\* reset() has returned true and its command is the next to be processed,
\* while the timer is Running with part of its period gone
C35_Witness ==
    /\ last.op = "reset" /\ last.val = TRUE
    /\ tmrQueue = <<Cmd("reset", 0)>>
    /\ tmrState = "Running"
    /\ tmrRemaining < tmrPeriod
\* C36: the default block time is 0 in every state; take() and
\* takeRecursive() without an argument are the calls with a wait of 0: they
\* leave the caller unblocked, and return false when the semaphore is not
\* available.
C36_DefaultNeverBlocks ==
    /\ [](defaultBlockTime = 0)
    /\ [][\A t \in Tasks :
            /\ takeDefault(t) <=> take(t, 0)
            /\ takeDefault(t) =>
                  /\ call'[t] = NoCall
                  /\ last'.op = "take"
                  /\ xSemaphoreTake(semCount).status # pdTRUE
                        => last'.val = FALSE]_vars
    /\ [][\A t \in Tasks :
            /\ takeRecursiveDefault(t) <=> takeRecursive(t, 0)
            /\ takeRecursiveDefault(t) =>
                  /\ call'[t] = NoCall
                  /\ last'.op = "takeRecursive"
                  /\ xSemaphoreTakeRecursive(semKind, mutexHolder,
                        recursiveCallCount, semCount, t).status # pdTRUE
                        => last'.val = FALSE]_vars

\* a take has returned false at once: the semaphore is not available and
\* nobody is blocked
C36_Witness ==
    /\ last.op \in {"take", "takeRecursive"}
    /\ last.val = FALSE
    /\ semCount = 0
    /\ defaultBlockTime = 0
    /\ \A t \in Tasks : call[t] = NoCall
\* what the scheduler keeps of the wrapped task
WrappedState == <<taskSuspended, tskWakeTime[theTask], tskPriority[theTask]>>

\* C37: delay, delayUntil and yield called by task t on the Task object of
\* theTask block or requeue t and leave every other task as it was, theTask
\* included when t is another task; suspend, resume and setPriority change
\* the state of theTask whoever calls them, and of no other task.
C37_CallerOrWrapped ==
    /\ [][\A t \in Tasks :
            /\ \A n \in 0..MaxPeriod : delay(t, n) =>
                  /\ tskYielded' = t
                  /\ Delayed(t)' <=> n > 0
                  /\ n > 0 => tskWakeTime'[t] = xTickCount + n
                  /\ t # theTask => UNCHANGED WrappedState
            /\ \A p \in 1..MaxPeriod : delayUntil(t, p) =>
                  /\ Delayed(t)' => tskYielded' = t
                  /\ t # theTask => UNCHANGED WrappedState
            /\ yield(t) =>
                  /\ tskYielded' = t
                  /\ UNCHANGED <<WrappedState, tskWakeTime>>]_vars
    /\ [][suspend =>
            (taskSuspended' /\ UNCHANGED <<tskWakeTime, tskPriority>>)]_vars
    /\ [][resume =>
            (~taskSuspended' /\ UNCHANGED <<tskWakeTime, tskPriority>>)]_vars
    /\ [][\A t \in Tasks, p \in Priorities : setPriority(t, p) =>
            /\ tskPriority'[theTask] = p
            /\ \A u \in Tasks \ {theTask} : tskPriority'[u] = tskPriority[u]
            /\ UNCHANGED <<taskSuspended, tskWakeTime>>]_vars

\* another task has called delay on the Task object of theTask: the caller
\* is delayed, theTask is neither delayed nor suspended
C37_Witness ==
    /\ last.op = "delay" /\ last.arg # theTask /\ last.val > 0
    /\ Delayed(last.arg)
    /\ ~Delayed(theTask)
    /\ ~taskSuspended
\* the wait a call of task t is blocked with after a step that blocked it
BlockedWith(t, op, ticksToWait) ==
    call'[t] # call[t] => call'[t].op = op /\ call'[t].wait = ticksToWait

\* the step has returned from the call op, or has blocked task t in it
StepOf(t, op) == last'.op = op \/ call'[t].op = op

\* C38: setDefaultMaxTicksToWait writes the default wait of receive() and
\* nothing else, setDefaultMinTicksToWait the default wait of sendToBack(item)
\* and sendToFront(item) and nothing else; the calls without a ticks argument
\* block with their own default; what a call with a ticks argument or a
\* FromISR call does is determined by the queue and the argument alone.
C38_IndependentDefaults ==
    /\ [][last'.op = "setDefaultMaxTicksToWait" =>
            \A t \in Tasks, k \in TickType :
               setDefaultMaxTicksToWait(t, k) =>
                  /\ defaultMaxTicksToWait' = k
                  /\ UNCHANGED <<defaultMinTicksToWait, qItems, length, call,
                                 aborted>>]_vars
    /\ [][last'.op = "setDefaultMinTicksToWait" =>
            \A t \in Tasks, k \in TickType :
               setDefaultMinTicksToWait(t, k) =>
                  /\ defaultMinTicksToWait' = k
                  /\ UNCHANGED <<defaultMaxTicksToWait, qItems, length, call,
                                 aborted>>]_vars
    /\ [][\A t \in FifoTasks :
            /\ (StepOf(t, "receive") /\ receiveDefault(t)) =>
                  BlockedWith(t, "receive", defaultMaxTicksToWait)
            /\ StepOf(t, "sendToBack") =>
                  \A x \in Items : sendToBackDefault(t, x) =>
                     BlockedWith(t, "sendToBack", defaultMinTicksToWait)
            /\ StepOf(t, "sendToFront") =>
                  \A x \in Items : sendToFrontDefault(t, x) =>
                     BlockedWith(t, "sendToFront", defaultMinTicksToWait)]_vars
    /\ [][\A t \in FifoTasks :
            StepOf(t, "sendToBack") =>
               \A x \in Items, k \in TickType : sendToBack(t, x, k) =>
                  /\ UNCHANGED <<defaultMaxTicksToWait, defaultMinTicksToWait>>
                  /\ IF Len(qItems) < length
                     THEN /\ qItems' = Append(qItems, x)
                          /\ last'.val = TRUE /\ UNCHANGED call
                     ELSE /\ UNCHANGED qItems
                          /\ IF k = 0
                             THEN last'.val = FALSE /\ UNCHANGED call
                             ELSE call'[t].wait = k]_vars
    /\ [][\A t \in FifoTasks :
            StepOf(t, "receive") =>
               \A k \in TickType : receive(t, k) =>
                  /\ UNCHANGED <<defaultMaxTicksToWait, defaultMinTicksToWait>>
                  /\ IF qItems # <<>>
                     THEN /\ qItems' = Tail(qItems)
                          /\ last'.val = Head(qItems) /\ UNCHANGED call
                     ELSE /\ UNCHANGED qItems
                          /\ IF k = 0
                             THEN aborted' = ~NDEBUG /\ UNCHANGED call
                             ELSE call'[t].wait = k]_vars
    /\ [][(last'.op \in {"sendToBackFromISR", "receiveFromISR"}
           /\ (receiveFromISR \/ \E x \in Items : sendToBackFromISR(x)))
          => /\ UNCHANGED <<defaultMaxTicksToWait, defaultMinTicksToWait, call>>
             /\ IF last'.op = "receiveFromISR"
                THEN qItems' = IF qItems = <<>> THEN qItems ELSE Tail(qItems)
                ELSE qItems' = IF Len(qItems) < length
                               THEN Append(qItems, last'.arg) ELSE qItems]_vars

\* the default wait of the sends has just been set, with items in the queue,
\* after the default wait of receive() was set to another value
C38_Witness ==
    /\ last.op = "setDefaultMinTicksToWait"
    /\ defaultMinTicksToWait = 1
    /\ defaultMaxTicksToWait = 0
    /\ qItems # <<>>
====
